---- MODULE Spec2Model ----
(***************************************************************************)
(* Verification model of the AI service of ArtificialOS: the UI generation *)
(* stream (grpc_server.AIServiceImpl over agents.ui_generator), and the    *)
(* generic cache of core/cache.py under concurrent request threads.        *)
(*                                                                         *)
(* Text is a sequence of symbols.  A symbol stands for a fixed piece of    *)
(* text (see SymLen); lengths are lengths of that text in characters.      *)
(***************************************************************************)
EXTENDS Integers, Sequences, FiniteSets, TLC

(***************************************************************************)
(* Bounds of the model.                                                    *)
(***************************************************************************)
\* upstream chunks one LLM stream delivers at most
MaxChunks == 2
\* items a stand-in generator hands to the servicer at most
MaxStubItems == 3
\* LRUCache calls the first thread makes, and the seconds the clock runs
MaxCalls == 2
MaxTime == 2
\* calls a single caller makes on one LRUCache
MaxSeqCalls == 4
\* requests one process serves, one after the other
MaxRequests == 2

(***************************************************************************)
(* Program constants.                                                      *)
(***************************************************************************)
BATCH_SIZE == 20
MAX_UI_SPEC_SIZE == 512 * 1024
MAX_JSON_DEPTH == 20

(***************************************************************************)
(* JSON values, as json.loads / model_dump produce them.  A scalar keeps   *)
(* its value as a string and the length of its JSON text.                  *)
(***************************************************************************)
JScalar(v, n) == [kind |-> "scalar", val |-> v, len |-> n, keys |-> <<>>, items |-> <<>>]
JStr(s) == JScalar(s, Len(s) + 2)
JLit(s) == JScalar(s, Len(s))
JNull == JLit("null")
JDict(ks, vs) == [kind |-> "dict", val |-> "", len |-> 0, keys |-> ks, items |-> vs]
JList(vs) == [kind |-> "list", val |-> "", len |-> 0, keys |-> <<>>, items |-> vs]

HasKey(d, k) == \E i \in 1..Len(d.keys) : d.keys[i] = k
Get(d, k) == d.items[CHOOSE i \in 1..Len(d.keys) : d.keys[i] = k]
\* d[k] = v of a Python dict: an existing key keeps its position
Put(d, k, v) ==
    IF HasKey(d, k)
    THEN [d EXCEPT !.items[CHOOSE i \in 1..Len(d.keys) : d.keys[i] = k] = v]
    ELSE [d EXCEPT !.keys = Append(@, k), !.items = Append(@, v)]

\* ns[1] + ... + ns[n]
RECURSIVE SumSeq(_, _)
SumSeq(ns, n) == IF n = 0 THEN 0 ELSE ns[n] + SumSeq(ns, n - 1)

\* len(json.dumps(obj)) with the default separators ", " and ": "
RECURSIVE JsonLen(_)
JsonLen(obj) ==
    LET n == Len(obj.items)
        sep == IF n = 0 THEN 0 ELSE 2 * (n - 1)
    IN  CASE obj.kind = "scalar" -> obj.len
          [] obj.kind = "list" ->
                2 + sep + SumSeq([i \in 1..n |-> JsonLen(obj.items[i])], n)
          [] OTHER ->
                2 + sep + SumSeq([i \in 1..n |->
                              Len(obj.keys[i]) + 4 + JsonLen(obj.items[i])], n)

\* sys.getsizeof of an ASCII str: its length plus the object header
GetSizeOf(n) == n + 49

\* validate_json_size: TRUE iff no ValueError is raised
validate_json_size(n, max_size) == ~(GetSizeOf(n) > max_size)

\* validate_json_depth: TRUE iff no ValueError is raised
RECURSIVE validate_json_depth(_, _, _)
validate_json_depth(obj, max_depth, current_depth) ==
    /\ ~(current_depth > max_depth)
    /\ obj.kind \in {"dict", "list"} =>
          \A i \in 1..Len(obj.items) :
             validate_json_depth(obj.items[i], max_depth, current_depth + 1)

(***************************************************************************)
(* UIComponent / UISpec (pydantic models), kept in their model_dump form.  *)
(***************************************************************************)
UIComponent(type, id, props, children, on_event) ==
    JDict(<<"type", "id", "props", "children", "on_event">>,
          <<JStr(type), JStr(id), props, JList(children), on_event>>)

UISpec(title, components, style) ==
    JDict(<<"type", "title", "layout", "components", "style", "services",
            "service_bindings", "lifecycle_hooks">>,
          <<JStr("app"), title, JStr("vertical"), JList(components), style,
            JList(<<>>), JDict(<<>>, <<>>), JDict(<<>>, <<>>)>>)

\* ComponentTemplates
TplButton(id, text, on_click) ==
    UIComponent("button", id, JDict(<<"text">>, <<text>>), <<>>,
                JDict(<<"click">>, <<JStr(on_click)>>))
TplInput(id, placeholder, value) ==
    UIComponent("input", id,
                JDict(<<"placeholder", "value", "type">>,
                      <<JStr(placeholder), JStr(value), JStr("text")>>),
                <<>>, JNull)
TplText(id, content, variant) ==
    UIComponent("text", id,
                JDict(<<"content", "variant">>, <<content, JStr(variant)>>),
                <<>>, JNull)
TplContainer(id, children, layout, gap) ==
    UIComponent("container", id,
                JDict(<<"layout", "gap">>, <<JStr(layout), JLit(gap)>>),
                children, JNull)
TplGrid(id, children, columns, gap) ==
    UIComponent("grid", id,
                JDict(<<"columns", "gap">>, <<JLit(columns), JLit(gap)>>),
                children, JNull)

\* obj.props[k] = v on a component
SetProp(c, k, v) == Put(c, "props", Put(Get(c, "props"), k, v))

Digit(d) == TplButton("btn-" \o d, JStr(d), "calc.append_digit")

\* json.dumps escapes a non-ASCII character of the BMP as \uXXXX: 6 characters
JNonAscii(name) == JScalar(name, 8)

generate_calculator ==
    LET display0 == TplInput("display", "", "0")
        display1 == SetProp(display0, "readonly", JLit("true"))
        display == SetProp(display1, "style",
                       JDict(<<"fontSize", "textAlign">>, <<JStr("24px"), JStr("right")>>))
        button_grid_children ==
            << Digit("7"), Digit("8"), Digit("9"),
               TplButton("btn-divide", JNonAscii("divide sign"), "calc.divide"),
               Digit("4"), Digit("5"), Digit("6"),
               TplButton("btn-multiply", JNonAscii("times sign"), "calc.multiply"),
               Digit("1"), Digit("2"), Digit("3"),
               TplButton("btn-subtract", JNonAscii("minus sign"), "calc.subtract"),
               Digit("0"),
               TplButton("btn-clear", JStr("C"), "calc.clear"),
               TplButton("btn-equals", JStr("="), "calc.evaluate"),
               TplButton("btn-add", JStr("+"), "calc.add") >>
        button_grid == TplGrid("button-grid", button_grid_children, "4", "8")
    IN  UISpec(JStr("Calculator"), <<display, button_grid>>,
               JDict(<<"padding", "maxWidth">>, <<JStr("20px"), JStr("300px")>>))

generate_counter ==
    LET count0 == TplText("count", JStr("0"), "h1")
        count_display == SetProp(count0, "style",
                       JDict(<<"fontSize", "fontWeight">>, <<JStr("48px"), JStr("bold")>>))
        buttons == TplContainer("buttons",
                       << TplButton("btn-inc", JStr("Increment"), "calc.add"),
                          TplButton("btn-dec", JStr("Decrement"), "calc.subtract"),
                          TplButton("btn-reset", JStr("Reset"), "calc.clear") >>,
                       "horizontal", "12")
    IN  UISpec(JStr("Counter"), <<count_display, buttons>>,
               JDict(<<"padding", "textAlign">>, <<JStr("40px"), JStr("center")>>))

generate_todo_app ==
    LET \* the emoji is escaped as a surrogate pair: 12 characters
        header == TplText("header", JScalar("Todo List", 12 + 10 + 2), "h2")
        task_input == TplInput("task-input", "Enter a new task...", "")
        add_button == TplButton("btn-add", JStr("Add Task"), "ui.add_todo")
        input_row == TplContainer("input-row", <<task_input, add_button>>, "horizontal", "8")
        todo_list == TplContainer("todo-list", <<>>, "vertical", "8")
    IN  UISpec(JStr("Todo App"), <<header, input_row, todo_list>>,
               JDict(<<"padding", "maxWidth">>, <<JStr("20px"), JStr("500px")>>))

\* request_len: the number of characters of the request text
generate_placeholder(request_len) ==
    LET header == TplText("header", JScalar("Generated App", 12 + 14 + 2), "h2")
        message == TplText("message", JScalar("Request: ...", 9 + request_len + 2), "body")
        info == TplText("info",
                    JStr("UI generation for this request is not yet implemented."),
                    "caption")
    IN  UISpec(JStr("Generated App"), <<header, message, info>>,
               JDict(<<"padding">>, <<JStr("40px")>>))

(***************************************************************************)
(* Text.  Symbols and the text each stands for:                            *)
(*   "{" "}" "," " " one character each; "x" one character of prose;       *)
(*   "f" a code fence (three backquotes); "j" the word json;               *)
(*   "t" the member "title":"T"; "c" the member "components":[];           *)
(*   "d" a components member holding DeepNesting nested containers;        *)
(*   "b" a style member holding one string of MAX_UI_SPEC_SIZE characters; *)
(*   a title ("Calculator", ...) the members of that rule-based spec.      *)
(***************************************************************************)
DeepNesting == MAX_JSON_DEPTH \div 2

RECURSIVE Nest(_)
Nest(n) ==
    TplContainer("n", IF n <= 1 THEN <<>> ELSE <<Nest(n - 1)>>, "vertical", "8")

DeepComponents == JList(<<Nest(DeepNesting)>>)

MemberSyms == {"t", "c", "d", "b"}
MemberKey(m) ==
    CASE m = "t" -> "title"
      [] m \in {"c", "d"} -> "components"
      [] OTHER -> "style"
MemberValue(m) ==
    CASE m = "t" -> JStr("T")
      [] m = "c" -> JList(<<>>)
      [] m = "d" -> DeepComponents
      [] OTHER -> JDict(<<"k">>, <<JScalar("long", MAX_UI_SPEC_SIZE + 2)>>)

RuleSpecOf(title) ==
    CASE title = "Calculator" -> generate_calculator
      [] title = "Counter" -> generate_counter
      [] title = "Todo App" -> generate_todo_app
      [] OTHER -> generate_placeholder(0)

SymLen(sym) ==
    CASE sym \in {"{", "}", ",", " ", "x"} -> 1
      [] sym = "f" -> 3
      [] sym = "j" -> 4
      [] sym \in MemberSyms -> Len(MemberKey(sym)) + 3 + JsonLen(MemberValue(sym))
      [] OTHER -> JsonLen(RuleSpecOf(sym)) - 2

\* len(text)
TextLen(text) == SumSeq([i \in 1..Len(text) |-> SymLen(text[i])], Len(text))

\* json.dumps(ui_spec.model_dump()) of a rule-based spec
JsonDumps(spec) == <<"{", Get(spec, "title").val, "}">>

Min(a, b) == IF a < b THEN a ELSE b
Max(a, b) == IF a > b THEN a ELSE b

\* text[a:b] for 0 <= a, 0 <= b
Slice(text, a, b) == SubSeq(text, a + 1, Min(b, Len(text)))

\* text.find(pat, from): 0-based index of the first occurrence, or -1
Find(text, pat, from) ==
    LET hits == {i \in from..(Len(text) - Len(pat)) : Slice(text, i, i + Len(pat)) = pat}
    IN  IF hits = {} THEN -1 ELSE CHOOSE i \in hits : \A k \in hits : i <= k

\* text.rfind(pat)
RFind(text, pat) ==
    LET hits == {i \in 0..(Len(text) - Len(pat)) : Slice(text, i, i + Len(pat)) = pat}
    IN  IF hits = {} THEN -1 ELSE CHOOSE i \in hits : \A k \in hits : i >= k

\* text.strip()
RECURSIVE LStrip(_)
LStrip(text) ==
    IF text # <<>> /\ Head(text) = " " THEN LStrip(Tail(text)) ELSE text
RECURSIVE RStrip(_)
RStrip(text) ==
    IF text # <<>> /\ text[Len(text)] = " "
    THEN RStrip(SubSeq(text, 1, Len(text) - 1)) ELSE text
Strip(text) == RStrip(LStrip(text))

\* text.replace(<<",", close>>, <<close>>): left to right, non-overlapping
RECURSIVE ReplaceCommaBefore(_, _)
ReplaceCommaBefore(text, close) ==
    IF Len(text) < 2 THEN text
    ELSE IF text[1] = "," /\ text[2] = close
         THEN <<close>> \o ReplaceCommaBefore(SubSeq(text, 3, Len(text)), close)
         ELSE <<text[1]>> \o ReplaceCommaBefore(Tail(text), close)

RECURSIVE BuildDict(_)
BuildDict(members) ==
    IF members = <<>> THEN JDict(<<>>, <<>>)
    ELSE LET m == members[Len(members)]
         IN  Put(BuildDict(SubSeq(members, 1, Len(members) - 1)),
                 MemberKey(m), MemberValue(m))

\* json.loads(text): ok = FALSE stands for JSONDecodeError
JsonLoads(text) ==
    LET w == SelectSeq(text, LAMBDA ch : ch # " ")
        n == Len(w)
        inner == SubSeq(w, 2, n - 1)
        wellFormed ==
            /\ n >= 2 /\ w[1] = "{" /\ w[n] = "}"
            /\ \/ inner = <<>>
               \/ /\ Len(inner) % 2 = 1
                  /\ \A i \in 1..Len(inner) :
                        IF i % 2 = 1 THEN inner[i] \in MemberSyms ELSE inner[i] = ","
        members == [k \in 1..((Len(inner) + 1) \div 2) |-> inner[2 * k - 1]]
    IN  IF wellFormed
        THEN [ok |-> TRUE, value |-> BuildDict(members)]
        ELSE [ok |-> FALSE, value |-> JDict(<<>>, <<>>)]

\* UIGeneratorAgent._extract_json: ok = FALSE stands for ValueError
extract_json(raw) ==
    LET text0 == Strip(raw)
        fenced == Find(text0, <<"f">>, 0) # -1
        start0 == IF Find(text0, <<"f", "j">>, 0) # -1
                  THEN Find(text0, <<"f", "j">>, 0) + 2
                  ELSE Find(text0, <<"f">>, 0) + 1
        end0 == Find(text0, <<"f">>, start0)
        text == IF fenced /\ end0 # -1 THEN Strip(Slice(text0, start0, end0)) ELSE text0
        start == Find(text, <<"{">>, 0)
        end == RFind(text, <<"}">>)
        json_str == Slice(text, start, end + 1)
        fixed_str == ReplaceCommaBefore(json_str, "}")
    IN  IF start = -1 \/ end = -1 THEN [ok |-> FALSE, value |-> JDict(<<>>, <<>>)]
        ELSE IF JsonLoads(json_str).ok THEN JsonLoads(json_str)
        ELSE JsonLoads(fixed_str)

\* UISpec.model_validate: ok = FALSE stands for pydantic's ValidationError
model_validate(parsed) ==
    IF ~HasKey(parsed, "title") THEN [ok |-> FALSE, value |-> JDict(<<>>, <<>>)]
    ELSE [ok |-> TRUE,
          value |-> UISpec(Get(parsed, "title"),
                           IF HasKey(parsed, "components")
                           THEN Get(parsed, "components").items ELSE <<>>,
                           IF HasKey(parsed, "style")
                           THEN Get(parsed, "style") ELSE JDict(<<>>, <<>>))]

(***************************************************************************)
(* State of one request served by AIServiceImpl, and of the generator      *)
(* object generate_ui_stream() returned to it.                             *)
(***************************************************************************)
VARIABLES
    rpc,           \* the RPC serving the request: "StreamUI" or "GenerateUI"
    stub,          \* TRUE: self.ui_generator is a stand-in, not UIGeneratorAgent
    use_llm,       \* UIGeneratorAgent.use_llm
    request,       \* request.message: the keywords it contains
    s_pc,          \* position of the servicer method
    out,           \* UIToken messages StreamUI has yielded to the caller
    token_buffer,  \* StreamUI's token_buffer
    token_count,   \* StreamUI's token_count
    ui_spec,       \* StreamUI's ui_spec: <<>> is None
    response,      \* GenerateUI's UIResponse: <<>> until it returns
    g_pc,          \* position of the generator
    content,       \* _generate_with_llm_stream's content
    chunk_count,   \* _generate_with_llm_stream's chunk_count
    llm_streams,   \* number of llm.stream() calls made for the request
    llm_failure,   \* what made the LLM path fail, "none" if nothing did
    item,          \* the item the generator has handed over, not yet handled
    yielded,       \* every item the generator has yielded, in order
    ui_cache,      \* UICache._cache: the set of stored (key, spec) pairs
    served         \* the requests the process has served before this one

streamVars == <<rpc, stub, use_llm, request, s_pc, out, token_buffer, token_count,
                ui_spec, response, g_pc, content, chunk_count, llm_streams,
                llm_failure, item, yielded, ui_cache, served>>

\* core/cache.py: one LRUCache shared by the request threads
VARIABLES
    max_size,      \* LRUCache.max_size
    ttl_seconds,   \* LRUCache.ttl_seconds: <<>> is None, <<n>> is n seconds
    cache,         \* LRUCache._cache: the OrderedDict, oldest entry first
    stats,         \* LRUCache._stats
    now,           \* time.time()
    threads,       \* each request thread's position in its LRUCache call
    history        \* the calls the single caller has made, in order, each with
                   \* the time (at) and the entries (pre) it began with

cacheVars == <<max_size, ttl_seconds, cache, stats, now, threads, history>>

\* core/json.py and blueprint/parser.py: one text handed to extract_json and to
\* one BlueprintParser
VARIABLES
    HAS_MSGSPEC,      \* core/json.py: msgspec could be imported
    HAS_JSON_REPAIR,  \* core/json.py: json_repair could be imported
    bp_content,       \* the text handed to extract_json and to parse
    repair,           \* extract_json's repair argument
    json_result,      \* what extract_json did: <<>> until it is called
    templates,        \* BlueprintParser.templates
    _id_counter,      \* BlueprintParser._id_counter
    bp_result,        \* what the calls of BlueprintParser.parse(bp_content) did,
                      \* in order
    earlier,          \* the texts the parser has parsed before bp_content
    recompiled        \* what _expand_components made of the compiled
                      \* components: <<>> until it is called

parserVars == <<HAS_MSGSPEC, HAS_JSON_REPAIR, bp_content, repair, json_result,
                templates, _id_counter, bp_result, earlier, recompiled>>

\* core/validate.py and core/json.py: one object handed to the depth validators
VARIABLES
    depth_obj,     \* the obj argument
    depth_max,     \* the max_depth argument
    depth_raised,  \* validate_json_depth: <<>> until called, <<TRUE>> if it raised
    depth_result   \* validate_depth: <<>> until called, then <<its result>>

depthVars == <<depth_obj, depth_max, depth_raised, depth_result>>

\* core/stream.py: one TokenBatcher, called directly or driven by batch_tokens
VARIABLES
    batch_size,  \* TokenBatcher.batch_size
    _buffer,     \* TokenBatcher._buffer
    bt_mode,     \* who calls the batcher: "direct", "batch_tokens" or "none"
    bt_calls,    \* the add and flush calls made, in order, each with its return value
    bt_stream,   \* batch_tokens: the tokens the stream has still to deliver
    bt_pc,       \* batch_tokens: "loop", "done"
    bt_batches   \* batch_tokens: the batches yielded

batcherVars == <<batch_size, _buffer, bt_mode, bt_calls, bt_stream, bt_pc,
                 bt_batches>>

\* handlers/ui.py: one request handed to UIHandler.stream
VARIABLES
    uh_message,  \* request.message
    uh_context,  \* request.context
    uh_pc,       \* position of the generator UIHandler.stream returned
    uh_out,      \* the UIToken messages it has yielded
    uh_error     \* the exception that left it: <<>> if none

handlerVars == <<uh_message, uh_context, uh_pc, uh_out, uh_error>>

\* clients/backend.py: one BackendClient and its circuit breaker
VARIABLES
    bk_state,      \* the breaker's current_state: "closed", "open", "half-open"
    bk_counter,    \* the breaker's fail counter
    bk_opened_at,  \* the time the breaker was last opened
    bk_now,        \* the clock
    bk_last,       \* the last call made of the client: <<>> before the first
    bk_ncalls      \* the number of calls made of the client

backendVars == <<bk_state, bk_counter, bk_opened_at, bk_now, bk_last,
                 bk_ncalls>>

\* agents/chat.py: one ChatHistory
VARIABLES
    ch_messages,     \* ChatHistory.messages: the role and the number of each message
    ch_max_history,  \* ChatHistory.max_history
    ch_added         \* the number of add calls made

chatVars == <<ch_messages, ch_max_history, ch_added>>

\* agents/app_manager.py: one AppManager
VARIABLES
    apps,            \* AppManager.apps: the registered apps in insertion order
    focused_app_id,  \* AppManager.focused_app_id: <<>> is None
    am_spawned,      \* the number of apps spawned: the ids handed out
    am_last,         \* the last call made of the manager: <<>> before the first
    am_ncalls        \* the number of calls made of the manager

appVars == <<apps, focused_app_id, am_spawned, am_last, am_ncalls>>

\* services/registry.py: one ServiceRegistry and the services registered with it
VARIABLES
    rg_services,  \* ServiceRegistry.services: each registered service's context (<<>> is None), _initialized and the app ids its tools ran under
    rg_last,      \* the last call of execute: <<>> before the first
    rg_ncalls     \* the number of calls of execute made

registryVars == <<rg_services, rg_last, rg_ncalls>>

\* the state of the modules that serve no request of the gRPC servicer
extVars == <<depthVars, batcherVars, handlerVars, backendVars, chatVars, appVars, registryVars>>

\* every variable outside depthVars
not_depthVars == <<streamVars, cacheVars, parserVars, batcherVars,
                   handlerVars, backendVars, chatVars, appVars, registryVars>>

\* every variable outside batcherVars
not_batcherVars == <<streamVars, cacheVars, parserVars, depthVars,
                     handlerVars, backendVars, chatVars, appVars,
                     registryVars>>

\* every variable outside handlerVars
not_handlerVars == <<streamVars, cacheVars, parserVars, depthVars,
                     batcherVars, backendVars, chatVars, appVars,
                     registryVars>>

\* every variable outside backendVars
not_backendVars == <<streamVars, cacheVars, parserVars, depthVars,
                     batcherVars, handlerVars, chatVars, appVars,
                     registryVars>>

\* every variable outside chatVars
not_chatVars == <<streamVars, cacheVars, parserVars, depthVars, batcherVars,
                  handlerVars, backendVars, appVars, registryVars>>

\* every variable outside appVars
not_appVars == <<streamVars, cacheVars, parserVars, depthVars, batcherVars,
                 handlerVars, backendVars, chatVars, registryVars>>

\* every variable outside registryVars
not_registryVars == <<streamVars, cacheVars, parserVars, depthVars,
                      batcherVars, handlerVars, backendVars, chatVars,
                      appVars>>

DepthIdle ==
    /\ depth_obj = JNull /\ depth_max = MAX_JSON_DEPTH
    /\ depth_raised = <<>> /\ depth_result = <<>>

BatcherIdle ==
    /\ batch_size = 20 /\ _buffer = <<>> /\ bt_mode = "none" /\ bt_calls = <<>>
    /\ bt_stream = <<>> /\ bt_pc = "done" /\ bt_batches = <<>>

HandlerIdle ==
    /\ uh_message = [text |-> <<>>, len |-> 0] /\ uh_context = <<>>
    /\ uh_pc = "none" /\ uh_out = <<>> /\ uh_error = <<>>

BackendIdle ==
    /\ bk_state = "closed" /\ bk_counter = 0 /\ bk_opened_at = 0 /\ bk_now = 0
    /\ bk_last = <<>> /\ bk_ncalls = 0

ChatIdle ==
    /\ ch_messages = <<>> /\ ch_max_history = 20 /\ ch_added = 0

AppsIdle ==
    /\ apps = <<>> /\ focused_app_id = <<>> /\ am_spawned = 0
    /\ am_last = <<>> /\ am_ncalls = 0

RegistryIdle ==
    /\ rg_services = <<>> /\ rg_last = <<>> /\ rg_ncalls = 0

\* of these modules, only this one is in use
OnlyDepth ==
    /\ BatcherIdle
    /\ HandlerIdle
    /\ BackendIdle
    /\ ChatIdle
    /\ AppsIdle
    /\ RegistryIdle

\* of these modules, only this one is in use
OnlyBatcher ==
    /\ DepthIdle
    /\ HandlerIdle
    /\ BackendIdle
    /\ ChatIdle
    /\ AppsIdle
    /\ RegistryIdle

\* of these modules, only this one is in use
OnlyHandler ==
    /\ DepthIdle
    /\ BatcherIdle
    /\ BackendIdle
    /\ ChatIdle
    /\ AppsIdle
    /\ RegistryIdle

\* of these modules, only this one is in use
OnlyBackend ==
    /\ DepthIdle
    /\ BatcherIdle
    /\ HandlerIdle
    /\ ChatIdle
    /\ AppsIdle
    /\ RegistryIdle

\* of these modules, only this one is in use
OnlyChat ==
    /\ DepthIdle
    /\ BatcherIdle
    /\ HandlerIdle
    /\ BackendIdle
    /\ AppsIdle
    /\ RegistryIdle

\* of these modules, only this one is in use
OnlyApps ==
    /\ DepthIdle
    /\ BatcherIdle
    /\ HandlerIdle
    /\ BackendIdle
    /\ ChatIdle
    /\ RegistryIdle

\* of these modules, only this one is in use
OnlyRegistry ==
    /\ DepthIdle
    /\ BatcherIdle
    /\ HandlerIdle
    /\ BackendIdle
    /\ ChatIdle
    /\ AppsIdle

\* none of these modules has been called
ExtIdle ==
    /\ DepthIdle
    /\ BatcherIdle
    /\ HandlerIdle
    /\ BackendIdle
    /\ ChatIdle
    /\ AppsIdle
    /\ RegistryIdle

Keywords == {"calculator", "todo", "task", "counter"}
Requests == {{}, {"calculator", "counter"}, {"task"}, {"counter"}}

NoItem == [kind |-> "none", text |-> <<>>, spec |-> <<>>]
StrItem(text) == [kind |-> "str", text |-> text, spec |-> <<>>]
SpecItem(spec) == [kind |-> "spec", text |-> <<>>, spec |-> <<spec>>]
ResetItem == [kind |-> "reset", text |-> <<>>, spec |-> <<>>]

UIToken(type, text) == [type |-> type, content |-> text]

\* what an upstream chunk can be: content = <<>> with has_content = FALSE is a
\* chunk object without a content attribute
Chunk(text) == [has_content |-> TRUE, content |-> text]
Chunks ==
    { Chunk(<<"{", "t">>), Chunk(<<"}">>), Chunk(<<",", "}">>),
      Chunk(<<",", "d", "}">>), Chunk(<<",", "b", "}">>), Chunk(<<"{", "}">>),
      Chunk(<<"x">>), Chunk(<<"f", "j", " ", "{", "t", "}">>), Chunk(<<"f">>),
      [has_content |-> FALSE, content |-> <<>>] }

\* what a stand-in generator can yield
StubItems ==
    { StrItem(<<"x">>), StrItem(<<>>), StrItem(JsonDumps(generate_counter)),
      SpecItem(generate_counter), ResetItem }

\* control is inside the generator: the servicer's for loop has called next()
InGenerator == s_pc = "loop" /\ item.kind = "none"

Yield(it) ==
    /\ item' = it
    /\ yielded' = Append(yielded, it)

(***************************************************************************)
(* UIGeneratorAgent.generate_ui_stream                                     *)
(***************************************************************************)
\* mutant: the counter keyword is tested before the calculator keyword
M_rule_based_counter_first(req) ==
    IF "counter" \in req THEN generate_counter
    ELSE IF "calculator" \in req THEN generate_calculator
    ELSE IF "todo" \in req \/ "task" \in req THEN generate_todo_app
    ELSE generate_placeholder(0)

\* the rule-based branch: the specification chosen for the request
rule_based(req) ==
    IF "calculator" \in req THEN generate_calculator
    ELSE IF "todo" \in req \/ "task" \in req THEN generate_todo_app
    ELSE IF "counter" \in req THEN generate_counter
    ELSE generate_placeholder(0)

\* rule-based generation up to its first yield: the JSON as a single token
RuleBased ==
    /\ Yield(StrItem(JsonDumps(rule_based(request))))
    /\ g_pc' = "rule_json"

\* mutant: the exception of the LLM path is re-raised to the caller
M_Fallback_Propagates(why) ==
    /\ llm_failure' = why
    /\ g_pc' = "raised"
    /\ UNCHANGED <<item, yielded>>

\* except Exception: log, then fall through to rule-based generation
Fallback(why) ==
    /\ llm_failure' = why
    /\ RuleBased

\* first next() with use_llm unset
GenStartRules ==
    /\ InGenerator /\ g_pc = "created" /\ ~stub /\ ~use_llm
    /\ RuleBased
    /\ UNCHANGED <<content, chunk_count, llm_streams, llm_failure>>
    /\ UNCHANGED <<rpc, stub, use_llm, request, s_pc, out, token_buffer, token_count,
                   ui_spec, response, ui_cache, served, cacheVars, parserVars, extVars>>

\* first next() with use_llm set: ModelLoader.load, then llm.stream(full_prompt)
GenStartLLM ==
    /\ InGenerator /\ g_pc = "created" /\ ~stub /\ use_llm
    /\ \E loaded \in BOOLEAN :
          IF loaded
          THEN /\ g_pc' = "llm_stream"
               /\ llm_streams' = llm_streams + 1
               /\ UNCHANGED <<llm_failure, item, yielded>>
          ELSE /\ Fallback("load")
               /\ UNCHANGED llm_streams
    /\ UNCHANGED <<content, chunk_count>>
    /\ UNCHANGED <<rpc, stub, use_llm, request, s_pc, out, token_buffer, token_count,
                   ui_spec, response, ui_cache, served, cacheVars, parserVars, extVars>>

\* the upstream delivers a chunk: one pass of "for chunk in llm.stream(...)"
LLMChunk ==
    /\ InGenerator /\ g_pc = "llm_stream" /\ chunk_count < MaxChunks
    /\ \E chunk \in Chunks :
          /\ chunk_count' = chunk_count + 1
          /\ IF chunk.has_content
             THEN /\ content' = content \o chunk.content
                  /\ IF chunk.content # <<>>
                     THEN Yield(StrItem(chunk.content))
                     ELSE UNCHANGED <<item, yielded>>
             ELSE UNCHANGED <<content, item, yielded>>
    /\ UNCHANGED <<g_pc, llm_streams, llm_failure>>
    /\ UNCHANGED <<rpc, stub, use_llm, request, s_pc, out, token_buffer, token_count,
                   ui_spec, response, ui_cache, served, cacheVars, parserVars, extVars>>

\* the upstream raises (connection error, API error) instead of a chunk
LLMRaise ==
    /\ InGenerator /\ g_pc = "llm_stream"
    /\ Fallback("stream")
    /\ UNCHANGED <<content, chunk_count, llm_streams>>
    /\ UNCHANGED <<rpc, stub, use_llm, request, s_pc, out, token_buffer, token_count,
                   ui_spec, response, ui_cache, served, cacheVars, parserVars, extVars>>

\* the upstream stream ends: _extract_json, UISpec.model_validate, yield ui_spec
LLMEnd ==
    /\ InGenerator /\ g_pc = "llm_stream"
    /\ LET ui_spec_json == extract_json(content)
           validated == model_validate(ui_spec_json.value)
       IN  IF ~ui_spec_json.ok THEN Fallback("parse")
           ELSE IF ~validated.ok THEN Fallback("validate")
           ELSE /\ Yield(SpecItem(validated.value))
                /\ g_pc' = "llm_spec"
                /\ UNCHANGED llm_failure
    /\ UNCHANGED <<content, chunk_count, llm_streams>>
    /\ UNCHANGED <<rpc, stub, use_llm, request, s_pc, out, token_buffer, token_count,
                   ui_spec, response, ui_cache, served, cacheVars, parserVars, extVars>>

\* resumed after the JSON token of the rule-based branch: yield ui_spec
RuleYieldSpec ==
    /\ InGenerator /\ g_pc = "rule_json"
    /\ Yield(SpecItem(rule_based(request)))
    /\ g_pc' = "rule_spec"
    /\ UNCHANGED <<content, chunk_count, llm_streams, llm_failure>>
    /\ UNCHANGED <<rpc, stub, use_llm, request, s_pc, out, token_buffer, token_count,
                   ui_spec, response, ui_cache, served, cacheVars, parserVars, extVars>>

\* resumed after the final UISpec: the generator returns
GenReturn ==
    /\ InGenerator /\ g_pc \in {"llm_spec", "rule_spec"}
    /\ g_pc' = "done"
    /\ UNCHANGED <<content, chunk_count, llm_streams, llm_failure, item, yielded>>
    /\ UNCHANGED <<rpc, stub, use_llm, request, s_pc, out, token_buffer, token_count,
                   ui_spec, response, ui_cache, served, cacheVars, parserVars, extVars>>

(***************************************************************************)
(* A stand-in for self.ui_generator: any object with generate_ui_stream.   *)
(* It yields what the servicer's loop dispatches on, ends, or raises.      *)
(***************************************************************************)
StubYield ==
    /\ InGenerator /\ stub /\ g_pc \in {"created", "stub"}
    /\ Len(yielded) < MaxStubItems
    /\ \E it \in StubItems : Yield(it)
    /\ g_pc' = "stub"
    /\ UNCHANGED <<content, chunk_count, llm_streams, llm_failure>>
    /\ UNCHANGED <<rpc, stub, use_llm, request, s_pc, out, token_buffer, token_count,
                   ui_spec, response, ui_cache, served, cacheVars, parserVars, extVars>>

StubEnd ==
    /\ InGenerator /\ stub /\ g_pc \in {"created", "stub"}
    /\ g_pc' = "done"
    /\ UNCHANGED <<content, chunk_count, llm_streams, llm_failure, item, yielded>>
    /\ UNCHANGED <<rpc, stub, use_llm, request, s_pc, out, token_buffer, token_count,
                   ui_spec, response, ui_cache, served, cacheVars, parserVars, extVars>>

StubRaise ==
    /\ InGenerator /\ stub /\ g_pc \in {"created", "stub"}
    /\ g_pc' = "raised"
    /\ UNCHANGED <<content, chunk_count, llm_streams, llm_failure, item, yielded>>
    /\ UNCHANGED <<rpc, stub, use_llm, request, s_pc, out, token_buffer, token_count,
                   ui_spec, response, ui_cache, served, cacheVars, parserVars, extVars>>

(***************************************************************************)
(* AIServiceImpl.StreamUI                                                  *)
(***************************************************************************)
Emit(type, text) == out' = Append(out, UIToken(type, text))

\* mutant: the start token is not sent
M_StreamUI_Start_Silent ==
    /\ rpc = "StreamUI" /\ s_pc = "start"
    /\ s_pc' = "thought"
    /\ UNCHANGED <<out, token_buffer, token_count, ui_spec, response>>
    /\ UNCHANGED <<rpc, stub, use_llm, request, g_pc, content, chunk_count,
                   llm_streams, llm_failure, item, yielded, ui_cache, served,
                   cacheVars, parserVars, extVars>>

\* yield GENERATION_START "Analyzing request..."
StreamUI_Start ==
    /\ rpc = "StreamUI" /\ s_pc = "start"
    /\ Emit("GENERATION_START", <<>>)
    /\ s_pc' = "thought"
    /\ UNCHANGED <<token_buffer, token_count, ui_spec, response>>
    /\ UNCHANGED <<rpc, stub, use_llm, request, g_pc, content, chunk_count,
                   llm_streams, llm_failure, item, yielded, ui_cache, served,
                   cacheVars, parserVars, extVars>>

\* yield THOUGHT; ui_spec = None, token_buffer = "", token_count = 0; enter the loop
StreamUI_Thought ==
    /\ rpc = "StreamUI" /\ s_pc = "thought"
    /\ Emit("THOUGHT", <<>>)
    /\ s_pc' = "loop"
    /\ ui_spec' = <<>> /\ token_buffer' = <<>> /\ token_count' = 0
    /\ UNCHANGED response
    /\ UNCHANGED <<rpc, stub, use_llm, request, g_pc, content, chunk_count,
                   llm_streams, llm_failure, item, yielded, ui_cache, served,
                   cacheVars, parserVars, extVars>>

\* one pass of the loop body: dispatch on the item the generator yielded
StreamUI_Item ==
    /\ rpc = "StreamUI" /\ s_pc = "loop" /\ item.kind # "none"
    /\ CASE item.kind = "reset" ->
              /\ Emit("GENERATION_START", <<>>)
              /\ token_buffer' = <<>>
              /\ token_count' = 0
              /\ UNCHANGED ui_spec
         [] item.kind = "str" ->
              /\ token_count' = token_count + 1
              /\ IF TextLen(token_buffer \o item.text) >= BATCH_SIZE
                 THEN /\ Emit("TOKEN", token_buffer \o item.text)
                      /\ token_buffer' = <<>>
                 ELSE /\ token_buffer' = token_buffer \o item.text
                      /\ UNCHANGED out
              /\ UNCHANGED ui_spec
         [] OTHER ->
              /\ IF token_buffer # <<>>
                 THEN /\ Emit("TOKEN", token_buffer)
                      /\ token_buffer' = <<>>
                 ELSE UNCHANGED <<out, token_buffer>>
              /\ ui_spec' = item.spec
              /\ UNCHANGED token_count
    /\ item' = NoItem
    /\ UNCHANGED <<s_pc, response>>
    /\ UNCHANGED <<rpc, stub, use_llm, request, g_pc, content, chunk_count,
                   llm_streams, llm_failure, yielded, ui_cache, served,
                   cacheVars, parserVars, extVars>>

\* mutant: the remaining buffered tokens are not flushed after the loop
M_StreamUI_Flush_Skipped ==
    /\ rpc = "StreamUI" /\ s_pc = "loop" /\ item.kind = "none" /\ g_pc = "done"
    /\ s_pc' = "final_thought"
    /\ UNCHANGED <<out, token_buffer, token_count, ui_spec, response>>
    /\ UNCHANGED <<rpc, stub, use_llm, request, g_pc, content, chunk_count,
                   llm_streams, llm_failure, item, yielded, ui_cache, served,
                   cacheVars, parserVars, extVars>>

\* the generator is exhausted: flush any remaining buffered tokens
StreamUI_Flush ==
    /\ rpc = "StreamUI" /\ s_pc = "loop" /\ item.kind = "none" /\ g_pc = "done"
    /\ IF token_buffer # <<>>
       THEN Emit("TOKEN", token_buffer)
       ELSE UNCHANGED out
    /\ s_pc' = "final_thought"
    /\ UNCHANGED <<token_buffer, token_count, ui_spec, response>>
    /\ UNCHANGED <<rpc, stub, use_llm, request, g_pc, content, chunk_count,
                   llm_streams, llm_failure, item, yielded, ui_cache, served,
                   cacheVars, parserVars, extVars>>

\* yield THOUGHT "Identified len(ui_spec.components) components"; with
\* ui_spec = None the attribute access raises and the handler yields ERROR
StreamUI_FinalThought ==
    /\ rpc = "StreamUI" /\ s_pc = "final_thought"
    /\ IF ui_spec # <<>>
       THEN /\ Emit("THOUGHT", <<>>)
            /\ s_pc' = "complete"
       ELSE /\ Emit("ERROR", <<>>)
            /\ s_pc' = "done"
    /\ UNCHANGED <<token_buffer, token_count, ui_spec, response>>
    /\ UNCHANGED <<rpc, stub, use_llm, request, g_pc, content, chunk_count,
                   llm_streams, llm_failure, item, yielded, ui_cache, served,
                   cacheVars, parserVars, extVars>>

\* yield COMPLETE
StreamUI_Complete ==
    /\ rpc = "StreamUI" /\ s_pc = "complete"
    /\ Emit("COMPLETE", <<>>)
    /\ s_pc' = "done"
    /\ UNCHANGED <<token_buffer, token_count, ui_spec, response>>
    /\ UNCHANGED <<rpc, stub, use_llm, request, g_pc, content, chunk_count,
                   llm_streams, llm_failure, item, yielded, ui_cache, served,
                   cacheVars, parserVars, extVars>>

\* mutant: the exception is not turned into an ERROR token
M_StreamUI_Except_Silent ==
    /\ rpc = "StreamUI" /\ s_pc = "loop" /\ g_pc = "raised"
    /\ s_pc' = "done"
    /\ UNCHANGED <<out, token_buffer, token_count, ui_spec, response>>
    /\ UNCHANGED <<rpc, stub, use_llm, request, g_pc, content, chunk_count,
                   llm_streams, llm_failure, item, yielded, ui_cache, served,
                   cacheVars, parserVars, extVars>>

\* an exception leaves the generator: except Exception yields ERROR
StreamUI_Except ==
    /\ rpc = "StreamUI" /\ s_pc = "loop" /\ g_pc = "raised"
    /\ Emit("ERROR", <<>>)
    /\ s_pc' = "done"
    /\ UNCHANGED <<token_buffer, token_count, ui_spec, response>>
    /\ UNCHANGED <<rpc, stub, use_llm, request, g_pc, content, chunk_count,
                   llm_streams, llm_failure, item, yielded, ui_cache, served,
                   cacheVars, parserVars, extVars>>

\* mutant: on the way out the specification received so far is put in the cache
M_Disconnect_Commits ==
    /\ rpc = "StreamUI" /\ s_pc \in {"thought", "loop", "final_thought", "complete"}
    /\ item.kind = "none" /\ g_pc # "raised"
    /\ s_pc' = "cancelled"
    /\ ui_cache' = ui_cache \cup {[key |-> request, spec |-> ui_spec]}
    /\ UNCHANGED <<out, token_buffer, token_count, ui_spec, response>>
    /\ UNCHANGED <<rpc, stub, use_llm, request, g_pc, content, chunk_count,
                   llm_streams, llm_failure, item, yielded, served, cacheVars, parserVars, extVars>>

\* the caller goes away while StreamUI is suspended at a yield: gRPC closes
\* the servicer generator (GeneratorExit), nothing further runs
Disconnect ==
    /\ rpc = "StreamUI" /\ s_pc \in {"thought", "loop", "final_thought", "complete"}
    /\ item.kind = "none" /\ g_pc # "raised"
    /\ s_pc' = "cancelled"
    /\ UNCHANGED <<out, token_buffer, token_count, ui_spec, response>>
    /\ UNCHANGED <<rpc, stub, use_llm, request, g_pc, content, chunk_count,
                   llm_streams, llm_failure, item, yielded, ui_cache, served,
                   cacheVars, parserVars, extVars>>

(***************************************************************************)
(* AIServiceImpl.GenerateUI over UIGeneratorAgent.generate_ui              *)
(***************************************************************************)
UIResponse(success, spec, error) == [success |-> success, ui_spec |-> spec, error |-> error]

\* generate_ui's loop skips every item that is not a UISpec
GenerateUI_Skip ==
    /\ rpc = "GenerateUI" /\ s_pc = "loop" /\ item.kind \in {"str", "reset"}
    /\ item' = NoItem
    /\ UNCHANGED <<s_pc, out, token_buffer, token_count, ui_spec, response>>
    /\ UNCHANGED <<rpc, stub, use_llm, request, g_pc, content, chunk_count,
                   llm_streams, llm_failure, yielded, ui_cache, served,
                   cacheVars, parserVars, extVars>>

\* generate_ui returns the UISpec; size and depth are validated; the response
GenerateUI_Return ==
    /\ rpc = "GenerateUI" /\ s_pc = "loop" /\ item.kind = "spec"
    /\ LET spec == item.spec[1]
       IN  response' =
              IF /\ validate_json_size(JsonLen(spec), MAX_UI_SPEC_SIZE)
                 /\ validate_json_depth(spec, MAX_JSON_DEPTH, 0)
              THEN <<UIResponse(TRUE, item.spec, "")>>
              ELSE <<UIResponse(FALSE, <<>>, "Validation failed")>>
    /\ item' = NoItem
    /\ s_pc' = "done"
    /\ UNCHANGED <<out, token_buffer, token_count, ui_spec>>
    /\ UNCHANGED <<rpc, stub, use_llm, request, g_pc, content, chunk_count,
                   llm_streams, llm_failure, yielded, ui_cache, served,
                   cacheVars, parserVars, extVars>>

\* generate_ui raised, or returned None (no UISpec among the items): except Exception
GenerateUI_Except ==
    /\ rpc = "GenerateUI" /\ s_pc = "loop" /\ item.kind = "none"
    /\ g_pc \in {"raised", "done"}
    /\ response' = <<UIResponse(FALSE, <<>>, "error")>>
    /\ s_pc' = "done"
    /\ UNCHANGED <<out, token_buffer, token_count, ui_spec>>
    /\ UNCHANGED <<rpc, stub, use_llm, request, g_pc, content, chunk_count,
                   llm_streams, llm_failure, item, yielded, ui_cache, served,
                   cacheVars, parserVars, extVars>>

(***************************************************************************)

(***************************************************************************)
(* grpc_server.serve: one AIServiceImpl and one UIGeneratorAgent serve the *)
(* requests of the process, here one after the other.                      *)
(***************************************************************************)
\* the request that has ended, as remembered for the requests that follow
Served ==
    [request |-> request,
     success |-> \/ /\ rpc = "StreamUI" /\ s_pc = "done"
                    /\ out # <<>> /\ out[Len(out)].type = "COMPLETE"
                 \/ /\ rpc = "GenerateUI" /\ response # <<>>
                    /\ response[1].success]

\* the request has ended; the next one arrives
NewRequest ==
    /\ ~stub /\ s_pc \in {"done", "cancelled"}
    /\ Len(served) + 1 < MaxRequests
    /\ served' = Append(served, Served)
    /\ rpc' \in {"StreamUI", "GenerateUI"}
    /\ request' \in Requests
    /\ s_pc' = IF rpc' = "StreamUI" THEN "start" ELSE "loop"
    /\ out' = <<>>
    /\ token_buffer' = <<>>
    /\ token_count' = 0
    /\ ui_spec' = <<>>
    /\ response' = <<>>
    /\ g_pc' = "created"
    /\ content' = <<>>
    /\ chunk_count' = 0
    /\ llm_streams' = 0
    /\ llm_failure' = "none"
    /\ item' = NoItem
    /\ yielded' = <<>>
    /\ UNCHANGED <<stub, use_llm, ui_cache, cacheVars, parserVars, extVars>>

(* core/cache.py: LRUCache, called by concurrently running request         *)
(* threads.  The class takes no lock: a thread may be suspended between    *)
(* any two statements of a method (and between the load and the store of   *)
(* an assignment that reads shared state), so each action is one such      *)
(* step of one thread.                                                     *)
(***************************************************************************)
Threads == {"t1", "t2"}
\* the single caller of tests/test_cache.py
Caller == "main"
Keys == {"a", "b", "c", "a2"}
Values == {"v", "w"}

\* _compute_key: the 64-bit digest of the key; "a" and "a2" collide
compute_key(key) == IF key = "a2" THEN "h-a" ELSE "h-" \o key

Stats(size, hits, misses, evictions) ==
    [size |-> size, hits |-> hits, misses |-> misses, evictions |-> evictions]

\* OrderedDict operations on the sequence of entries
Contains(d, k) == \E i \in 1..Len(d) : d[i].key = k
IndexOf(d, k) == CHOOSE i \in 1..Len(d) : d[i].key = k
DelItem(d, k) == SelectSeq(d, LAMBDA e : e.key # k)
\* d[k] = (value, timestamp): a key already present keeps its position
SetItem(d, k, value, timestamp) ==
    LET e == [key |-> k, value |-> value, timestamp |-> timestamp]
    IN  IF Contains(d, k) THEN [d EXCEPT ![IndexOf(d, k)] = e] ELSE Append(d, e)
move_to_end(d, k) == Append(DelItem(d, k), d[IndexOf(d, k)])

\* variant: an entry expires only once it is older than the TTL
M_is_expired_late(timestamp) ==
    IF ttl_seconds = <<>> THEN FALSE ELSE now - timestamp > ttl_seconds[1]

_is_expired(timestamp) ==
    IF ttl_seconds = <<>> THEN FALSE ELSE now - timestamp >= ttl_seconds[1]

\* a thread between calls, with the number of calls it may still make
Idle(calls, ret, exc) ==
    [pc |-> "idle", cache_key |-> "", value |-> "", timestamp |-> 0, n |-> 0,
     calls |-> calls, ret |-> ret, exc |-> exc]

\* the single caller's latest call ends with ret or exc
Ended(t, ret, exc) ==
    IF t = Caller
    THEN [history EXCEPT ![Len(history)].ret = ret, ![Len(history)].exc = exc]
    ELSE history

\* thread t moves to pc
Goto(t, pc) ==
    /\ threads' = [threads EXCEPT ![t].pc = pc]
    /\ UNCHANGED history
\* thread t's call returns ret (<<>> is None)
Return(t, ret) ==
    /\ threads' = [threads EXCEPT ![t] = Idle(@.calls, ret, "")]
    /\ history' = Ended(t, ret, "")
\* thread t's call ends with an exception
Raise(t, exc) ==
    /\ threads' = [threads EXCEPT ![t] = Idle(@.calls, <<>>, exc)]
    /\ history' = Ended(t, <<>>, exc)
\* thread t enters method op at pc
Call(t, op, pc, key, value) ==
    /\ threads[t].pc = "idle" /\ threads[t].calls > 0
    /\ history' = IF t = Caller
                  THEN Append(history, [op |-> op, key |-> key, value |-> value,
                                        at |-> now, pre |-> cache,
                                        ret |-> <<>>, exc |-> ""])
                  ELSE history
    /\ threads' = [threads EXCEPT ![t] =
                      [pc |-> pc, cache_key |-> compute_key(key), value |-> value,
                       timestamp |-> 0, n |-> 0, calls |-> @.calls - 1,
                       ret |-> <<>>, exc |-> ""]]

\* time passes (it is read only when entries expire).  A call reads the
\* clock at most once, so for the single caller time that passes during a
\* call is time that passes before or after it.
Tick ==
    /\ now < MaxTime /\ ttl_seconds # <<>>
    /\ threads[Caller].pc = "idle"
    /\ now' = now + 1
    /\ UNCHANGED <<history, max_size, ttl_seconds, cache, stats, threads, streamVars, parserVars, extVars>>

(* LRUCache.get *)
get_call(t) ==
    /\ \E key \in Keys : Call(t, "get", "get_contains", key, "")
    /\ UNCHANGED <<max_size, ttl_seconds, cache, stats, now, streamVars, parserVars, extVars>>

\* if cache_key in self._cache
get_contains(t) ==
    /\ threads[t].pc = "get_contains"
    /\ Goto(t, IF Contains(cache, threads[t].cache_key) THEN "get_read" ELSE "get_miss")
    /\ UNCHANGED <<max_size, ttl_seconds, cache, stats, now, streamVars, parserVars, extVars>>

\* value, timestamp = self._cache[cache_key]; if self._is_expired(timestamp)
get_read(t) ==
    /\ threads[t].pc = "get_read"
    /\ LET k == threads[t].cache_key
       IN  IF ~Contains(cache, k) THEN Raise(t, "KeyError")
           ELSE LET e == cache[IndexOf(cache, k)]
                IN  /\ threads' = [threads EXCEPT
                           ![t].value = e.value, ![t].timestamp = e.timestamp,
                           ![t].pc = IF _is_expired(e.timestamp) THEN "get_del" ELSE "get_move"]
                    /\ UNCHANGED history
    /\ UNCHANGED <<max_size, ttl_seconds, cache, stats, now, streamVars, parserVars, extVars>>

\* del self._cache[cache_key]
get_del(t) ==
    /\ threads[t].pc = "get_del"
    /\ IF Contains(cache, threads[t].cache_key)
       THEN /\ cache' = DelItem(cache, threads[t].cache_key)
            /\ Goto(t, "get_len")
       ELSE /\ Raise(t, "KeyError")
            /\ UNCHANGED cache
    /\ UNCHANGED <<max_size, ttl_seconds, stats, now, streamVars, parserVars, extVars>>

\* self._stats.size = len(self._cache): the length is taken ...
get_len(t) ==
    /\ threads[t].pc = "get_len"
    /\ threads' = [threads EXCEPT ![t].n = Len(cache), ![t].pc = "get_size"]
    /\ UNCHANGED <<history, max_size, ttl_seconds, cache, stats, now, streamVars, parserVars, extVars>>

\* ... and stored
get_size(t) ==
    /\ threads[t].pc = "get_size"
    /\ stats' = [stats EXCEPT !.size = threads[t].n]
    /\ Goto(t, "get_miss")
    /\ UNCHANGED <<max_size, ttl_seconds, cache, now, streamVars, parserVars, extVars>>

\* self._stats.misses += 1: the counter is loaded ...
get_miss(t) ==
    /\ threads[t].pc = "get_miss"
    /\ threads' = [threads EXCEPT ![t].n = stats.misses, ![t].pc = "get_miss_store"]
    /\ UNCHANGED <<history, max_size, ttl_seconds, cache, stats, now, streamVars, parserVars, extVars>>

\* ... and stored; return None
get_miss_store(t) ==
    /\ threads[t].pc = "get_miss_store"
    /\ stats' = [stats EXCEPT !.misses = threads[t].n + 1]
    /\ Return(t, <<>>)
    /\ UNCHANGED <<max_size, ttl_seconds, cache, now, streamVars, parserVars, extVars>>

\* variant: a hit leaves the entry where it is
M_get_move_skipped(t) ==
    /\ threads[t].pc = "get_move"
    /\ IF Contains(cache, threads[t].cache_key)
       THEN /\ UNCHANGED cache
            /\ Goto(t, "get_hit")
       ELSE /\ Raise(t, "KeyError")
            /\ UNCHANGED cache
    /\ UNCHANGED <<max_size, ttl_seconds, stats, now, streamVars, parserVars, extVars>>

\* self._cache.move_to_end(cache_key)
get_move(t) ==
    /\ threads[t].pc = "get_move"
    /\ IF Contains(cache, threads[t].cache_key)
       THEN /\ cache' = move_to_end(cache, threads[t].cache_key)
            /\ Goto(t, "get_hit")
       ELSE /\ Raise(t, "KeyError")
            /\ UNCHANGED cache
    /\ UNCHANGED <<max_size, ttl_seconds, stats, now, streamVars, parserVars, extVars>>

\* self._stats.hits += 1: the counter is loaded ...
get_hit(t) ==
    /\ threads[t].pc = "get_hit"
    /\ threads' = [threads EXCEPT ![t].n = stats.hits, ![t].pc = "get_hit_store"]
    /\ UNCHANGED <<history, max_size, ttl_seconds, cache, stats, now, streamVars, parserVars, extVars>>

\* ... and stored; return value
get_hit_store(t) ==
    /\ threads[t].pc = "get_hit_store"
    /\ stats' = [stats EXCEPT !.hits = threads[t].n + 1]
    /\ Return(t, <<threads[t].value>>)
    /\ UNCHANGED <<max_size, ttl_seconds, cache, now, streamVars, parserVars, extVars>>

(* LRUCache.set *)
set_call(t) ==
    /\ \E key \in Keys, value \in Values : Call(t, "set", "set_contains", key, value)
    /\ UNCHANGED <<max_size, ttl_seconds, cache, stats, now, streamVars, parserVars, extVars>>

\* if cache_key in self._cache
set_contains(t) ==
    /\ threads[t].pc = "set_contains"
    /\ Goto(t, IF Contains(cache, threads[t].cache_key) THEN "set_del" ELSE "set_insert")
    /\ UNCHANGED <<max_size, ttl_seconds, cache, stats, now, streamVars, parserVars, extVars>>

\* variant: the oldest entry is deleted in place of the key's
M_set_del_oldest(t) ==
    /\ threads[t].pc = "set_del"
    /\ IF Contains(cache, threads[t].cache_key)
       THEN /\ cache' = Tail(cache)
            /\ Goto(t, "set_insert")
       ELSE /\ Raise(t, "KeyError")
            /\ UNCHANGED cache
    /\ UNCHANGED <<max_size, ttl_seconds, stats, now, streamVars, parserVars, extVars>>

\* del self._cache[cache_key]
set_del(t) ==
    /\ threads[t].pc = "set_del"
    /\ IF Contains(cache, threads[t].cache_key)
       THEN /\ cache' = DelItem(cache, threads[t].cache_key)
            /\ Goto(t, "set_insert")
       ELSE /\ Raise(t, "KeyError")
            /\ UNCHANGED cache
    /\ UNCHANGED <<max_size, ttl_seconds, stats, now, streamVars, parserVars, extVars>>

\* self._cache[cache_key] = (value, time.time())
set_insert(t) ==
    /\ threads[t].pc = "set_insert"
    /\ cache' = SetItem(cache, threads[t].cache_key, threads[t].value, now)
    /\ Goto(t, "set_check")
    /\ UNCHANGED <<max_size, ttl_seconds, stats, now, streamVars, parserVars, extVars>>

\* variant: the size limit is not enforced
M_set_check_never(t) ==
    /\ threads[t].pc = "set_check"
    /\ Goto(t, "set_len")
    /\ UNCHANGED <<max_size, ttl_seconds, cache, stats, now, streamVars, parserVars, extVars>>

\* if len(self._cache) > self.max_size
set_check(t) ==
    /\ threads[t].pc = "set_check"
    /\ Goto(t, IF Len(cache) > max_size THEN "set_popitem" ELSE "set_len")
    /\ UNCHANGED <<max_size, ttl_seconds, cache, stats, now, streamVars, parserVars, extVars>>

\* variant: popitem(last=True)
M_set_popitem_newest(t) ==
    /\ threads[t].pc = "set_popitem"
    /\ IF cache # <<>>
       THEN /\ cache' = SubSeq(cache, 1, Len(cache) - 1)
            /\ Goto(t, "set_evictions")
       ELSE /\ Raise(t, "KeyError")
            /\ UNCHANGED cache
    /\ UNCHANGED <<max_size, ttl_seconds, stats, now, streamVars, parserVars, extVars>>

\* self._cache.popitem(last=False)
set_popitem(t) ==
    /\ threads[t].pc = "set_popitem"
    /\ IF cache # <<>>
       THEN /\ cache' = Tail(cache)
            /\ Goto(t, "set_evictions")
       ELSE /\ Raise(t, "KeyError")
            /\ UNCHANGED cache
    /\ UNCHANGED <<max_size, ttl_seconds, stats, now, streamVars, parserVars, extVars>>

\* self._stats.evictions += 1: the counter is loaded ...
set_evictions(t) ==
    /\ threads[t].pc = "set_evictions"
    /\ threads' = [threads EXCEPT ![t].n = stats.evictions, ![t].pc = "set_evictions_store"]
    /\ UNCHANGED <<history, max_size, ttl_seconds, cache, stats, now, streamVars, parserVars, extVars>>

\* ... and stored
set_evictions_store(t) ==
    /\ threads[t].pc = "set_evictions_store"
    /\ stats' = [stats EXCEPT !.evictions = threads[t].n + 1]
    /\ Goto(t, "set_len")
    /\ UNCHANGED <<max_size, ttl_seconds, cache, now, streamVars, parserVars, extVars>>

\* self._stats.size = len(self._cache): the length is taken ...
set_len(t) ==
    /\ threads[t].pc = "set_len"
    /\ threads' = [threads EXCEPT ![t].n = Len(cache), ![t].pc = "set_size"]
    /\ UNCHANGED <<history, max_size, ttl_seconds, cache, stats, now, streamVars, parserVars, extVars>>

\* ... and stored; return
set_size(t) ==
    /\ threads[t].pc = "set_size"
    /\ stats' = [stats EXCEPT !.size = threads[t].n]
    /\ Return(t, <<>>)
    /\ UNCHANGED <<max_size, ttl_seconds, cache, now, streamVars, parserVars, extVars>>

(* LRUCache.delete *)
delete_call(t) ==
    /\ \E key \in Keys : Call(t, "delete", "delete_contains", key, "")
    /\ UNCHANGED <<max_size, ttl_seconds, cache, stats, now, streamVars, parserVars, extVars>>

\* if cache_key in self._cache ... return False
delete_contains(t) ==
    /\ threads[t].pc = "delete_contains"
    /\ IF Contains(cache, threads[t].cache_key)
       THEN Goto(t, "delete_del")
       ELSE Return(t, <<"False">>)
    /\ UNCHANGED <<max_size, ttl_seconds, cache, stats, now, streamVars, parserVars, extVars>>

\* del self._cache[cache_key]
delete_del(t) ==
    /\ threads[t].pc = "delete_del"
    /\ IF Contains(cache, threads[t].cache_key)
       THEN /\ cache' = DelItem(cache, threads[t].cache_key)
            /\ Goto(t, "delete_len")
       ELSE /\ Raise(t, "KeyError")
            /\ UNCHANGED cache
    /\ UNCHANGED <<max_size, ttl_seconds, stats, now, streamVars, parserVars, extVars>>

\* self._stats.size = len(self._cache): the length is taken ...
delete_len(t) ==
    /\ threads[t].pc = "delete_len"
    /\ threads' = [threads EXCEPT ![t].n = Len(cache), ![t].pc = "delete_size"]
    /\ UNCHANGED <<history, max_size, ttl_seconds, cache, stats, now, streamVars, parserVars, extVars>>

\* ... and stored; return True
delete_size(t) ==
    /\ threads[t].pc = "delete_size"
    /\ stats' = [stats EXCEPT !.size = threads[t].n]
    /\ Return(t, <<"True">>)
    /\ UNCHANGED <<max_size, ttl_seconds, cache, now, streamVars, parserVars, extVars>>

(* LRUCache.clear *)
clear_call(t) ==
    /\ Call(t, "clear", "clear_clear", "", "")
    /\ UNCHANGED <<max_size, ttl_seconds, cache, stats, now, streamVars, parserVars, extVars>>

\* self._cache.clear()
clear_clear(t) ==
    /\ threads[t].pc = "clear_clear"
    /\ cache' = <<>>
    /\ Goto(t, "clear_size")
    /\ UNCHANGED <<max_size, ttl_seconds, stats, now, streamVars, parserVars, extVars>>

\* self._stats.size = 0
clear_size(t) ==
    /\ threads[t].pc = "clear_size"
    /\ stats' = [stats EXCEPT !.size = 0]
    /\ Return(t, <<>>)
    /\ UNCHANGED <<max_size, ttl_seconds, cache, now, streamVars, parserVars, extVars>>

\* LRUCache.__init__, and the calls each request thread is going to make
LRUCache_init(m, ttl, calls) ==
    /\ max_size = m
    /\ ttl_seconds = ttl
    /\ cache = <<>>
    /\ stats = Stats(0, 0, 0, 0)
    /\ now = 0
    /\ history = <<>>
    /\ threads = [t \in DOMAIN calls |-> Idle(calls[t], <<>>, "")]

(***************************************************************************)
(* core/json.py.  A text is modelled by what the three parsers make of it  *)
(* (kind) and by the value a parser that accepts it returns (value):       *)
(*   "no_object"   no '{' or no '}' in the text                            *)
(*   "valid"       strict JSON: msgspec, json.loads and repair accept it   *)
(*   "lenient"     json.loads accepts it, msgspec does not                 *)
(*   "repairable"  only repair_json followed by json.loads accepts it      *)
(*   "hopeless"    no parser accepts it                                    *)
(***************************************************************************)
Text(kind, value) == [kind |-> kind, value |-> value]
Kinds == {"no_object", "valid", "lenient", "repairable", "hopeless"}

extract_json_boundaries(t) == IF t.kind = "no_object" THEN <<>> ELSE <<t>>

\* the parsers: TRUE iff the parser returns a value
msgspec_decode(t) == t.kind = "valid"
json_loads(t) == t.kind \in {"valid", "lenient"}
repair_json(t) == t.kind \in {"valid", "lenient", "repairable"}

Success(value, tried) == [ok |-> TRUE, value |-> value, error |-> "", tried |-> tried]
Failure(error, tried) == [ok |-> FALSE, value |-> JNull, error |-> error, tried |-> tried]

\* parse(text, strict=..., repair=...); tried lists the parsers it ran
parse(t, strict, repair_) ==
    LET fast == HAS_MSGSPEC /\ strict
        tried1 == IF fast THEN <<"msgspec">> ELSE <<>>
        tried2 == Append(tried1, "json")
        tried3 == Append(tried2, "repair")
    IN  CASE extract_json_boundaries(t) = <<>> ->
                Failure("No JSON object found in text", <<>>)
          [] OTHER ->
                IF fast /\ msgspec_decode(t) THEN Success(t.value, tried1)
                ELSE IF fast /\ strict /\ ~repair_ THEN Failure("Invalid JSON", tried1)
                ELSE IF json_loads(t) THEN Success(t.value, tried2)
                ELSE IF ~repair_ \/ ~HAS_JSON_REPAIR THEN Failure("JSON decode failed", tried2)
                ELSE IF repair_json(t) THEN Success(t.value, tried3)
                ELSE Failure("JSON repair failed", tried3)

\* core/json.py's extract_json(text, repair): a Failure is raised as
\* JSONParseError
json_extract_json(t, repair_) == parse(t, ~repair_, FALSE)

(***************************************************************************)
(* blueprint/parser.py.  The Blueprint and the package are JSON values.    *)
(***************************************************************************)
EmptyDict == JDict(<<>>, <<>>)
EmptyList == JList(<<>>)

IsStr(x) == x.kind = "scalar" /\ x.len = Len(x.val) + 2
IsDict(x) == x.kind = "dict"
IsList(x) == x.kind = "list"

\* bool(x)
Truthy(x) ==
    CASE IsDict(x) -> x.keys # <<>>
      [] IsList(x) -> x.items # <<>>
      [] IsStr(x) -> x.val # ""
      [] OTHER -> x.val \notin {"null", "false", "0"}

\* d.get(k, default)
GetOr(d, k, default) == IF HasKey(d, k) THEN Get(d, k) ELSE default

\* the keys of the DSL: component types, and what may follow the first '#'
TypeNames == {"button", "text", "row", "col"}
IdParts == {"", "b1", "b2", "c1", "c2", "button", "a#b"}
EventNames == {"click"}

\* key.split("#"): every '#' splits
M_split_unlimited(key) ==
    IF \E ty \in TypeNames, r \in IdParts : key = ty \o "#" \o r
    THEN LET p == CHOOSE p \in TypeNames \X IdParts : key = p[1] \o "#" \o p[2]
         IN  IF p[2] = "a#b" THEN <<p[1], "a", "b">> ELSE <<p[1], p[2]>>
    ELSE <<key>>

\* key.split("#", 1) of a key that is a type name or "type#rest"
split(key) ==
    IF \E ty \in TypeNames, r \in IdParts : key = ty \o "#" \o r
    THEN LET p == CHOOSE p \in TypeNames \X IdParts : key = p[1] \o "#" \o p[2]
         IN  <<p[1], p[2]>>
    ELSE <<key>>

\* k.startswith("@") and k[1:]
startswith_at(k) == \E e \in EventNames : k = "@" \o e
strip_at(k) == CHOOSE e \in EventNames : k = "@" \o e

\* {k: v for k, v in d.items() if keep(k)}, in the order of d
Pick(d, keep(_)) ==
    LET idx == SelectSeq([i \in 1..Len(d.keys) |-> i], LAMBDA i : keep(d.keys[i]))
    IN  JDict([j \in 1..Len(idx) |-> d.keys[idx[j]]],
              [j \in 1..Len(idx) |-> d.items[idx[j]]])

\* what an expansion leaves behind: its return value (JNull is None), the id
\* counter, and the synthetic ids handed out so far in this parse
Made(o, n, syn) == [out |-> o, n |-> n, syn |-> syn]

\* in the place of a value: the exception raised instead of returning one
Raised(exc) == [kind |-> "raise", val |-> exc, len |-> 0, keys |-> <<>>, items |-> <<>>]
IsRaised(x) == x.kind = "raise"

\* for x in v: a list gives its items, a dict its keys, a str its characters
\* (strings of at most one character only); anything else raises TypeError
Iterable(v) == IsList(v) \/ IsDict(v) \/ (IsStr(v) /\ Len(v.val) <= 1)
IterItems(v) ==
    CASE IsList(v) -> v.items
      [] IsDict(v) -> [i \in 1..Len(v.keys) |-> JStr(v.keys[i])]
      [] OTHER -> IF v.val = "" THEN <<>> ELSE <<v>>

Roles == {"sidebar", "main", "editor", "header", "footer", "content", "section"}

RECURSIVE _expand_components(_, _, _)
RECURSIVE _expand_component(_, _, _)
RECURSIVE _expand_explicit_component(_, _, _)

\* if v: d[k] = v
PutIf(d, k, v) == IF Truthy(v) THEN Put(d, k, v) ELSE d

\* if expanded: result.append(expanded)
Collected(result, expanded) ==
    IF IsRaised(expanded.out) THEN expanded
    ELSE Made(IF Truthy(expanded.out)
              THEN JList(Append(result.items, expanded.out)) ELSE result,
              expanded.n, expanded.syn)

\* one iteration of _expand_components' loop
ExpandNext(before, comp) ==
    IF IsRaised(before.out) THEN before
    ELSE Collected(before.out, _expand_component(comp, before.n, before.syn))

_expand_components(components, n, syn) ==
    IF ~Iterable(components) THEN Made(Raised("TypeError"), n, syn)
    ELSE IF ~IsList(components)
    THEN _expand_components(JList(IterItems(components)), n, syn)
    ELSE IF components.items = <<>> THEN Made(EmptyList, n, syn)
    ELSE ExpandNext(
           _expand_components(
               JList(SubSeq(components.items, 1, Len(components.items) - 1)), n, syn),
           components.items[Len(components.items)])

\* comp_id of the compact form: parts[1] if len(parts) > 1 else f"{parts[0]}-{counter}"
CompactId(parts, n) ==
    IF Len(parts) > 1 THEN parts[2] ELSE parts[1] \o "-" \o ToString(n)

\* events[k[1:]] = v for the keys that start with '@'
Events(at) == JDict([j \in 1..Len(at.keys) |-> strip_at(at.keys[j])], at.items)

\* explicit_comp of the compact form
ExplicitComp(parts, props, n) ==
    PutIf(PutIf(JDict(<<"type", "id", "props">>,
                      <<JStr(parts[1]), JStr(CompactId(parts, n)),
                        Pick(props, LAMBDA k : ~startswith_at(k) /\ k # "children")>>),
                "on_event", Events(Pick(props, LAMBDA k : startswith_at(k)))),
          "children", GetOr(props, "children", JNull))

\* the compact form: the loop over comp.items() returns in its first iteration
ExpandCompact(parts, props, n, syn) ==
    _expand_explicit_component(
        ExplicitComp(parts, props, n),
        IF CompactId(parts, n) = parts[1] THEN n + 1 ELSE n,
        IF Len(parts) > 1 THEN syn ELSE Append(syn, CompactId(parts, n)))

_expand_component(comp, n, syn) ==
    CASE IsStr(comp) ->
            Made(JDict(<<"type", "id", "props">>,
                       <<JStr("text"), JStr("text-" \o ToString(n)),
                         JDict(<<"content">>, <<comp>>)>>),
                 n + 1, Append(syn, "text-" \o ToString(n)))
      [] IsDict(comp) /\ HasKey(comp, "type") ->
            _expand_explicit_component(comp, n, syn)
      [] IsDict(comp) /\ comp.keys # <<>> ->
            ExpandCompact(split(comp.keys[1]),
                          IF IsDict(comp.items[1]) THEN comp.items[1] ELSE EmptyDict,
                          n, syn)
      [] OTHER -> Made(JNull, n, syn)

\* the layout shortcuts on type
LayoutProps(comp_type, props) ==
    CASE comp_type.val = "row" ->
            Put(props, "layout", GetOr(props, "layout", JStr("horizontal")))
      [] comp_type.val = "col" ->
            Put(props, "layout", GetOr(props, "layout", JStr("vertical")))
      [] comp_type.val \in Roles ->
            Put(Put(props, "role", comp_type), "layout",
                GetOr(props, "layout", JStr("vertical")))
      [] OTHER -> props

\* children = self._expand_components(children_data) if children_data else None
ExpandChildren(children_data, n, syn) ==
    IF Truthy(children_data) THEN _expand_components(children_data, n, syn)
    ELSE Made(JNull, n, syn)

\* the result built from the component, its id and its expanded children
Result(comp, comp_type, comp_id, children) ==
    IF IsRaised(children.out) THEN children
    ELSE
    Made(PutIf(PutIf(JDict(<<"type", "id", "props">>,
                           <<IF comp_type.val \in {"row", "col"} \cup Roles
                             THEN JStr("container") ELSE comp_type,
                             comp_id,
                             LayoutProps(comp_type, GetOr(comp, "props", EmptyDict))>>),
                     "on_event", GetOr(comp, "on_event", EmptyDict)),
               "children", children.out),
         children.n, children.syn)

\* every component is given a synthetic id, whatever id it came with
M_ExpandExplicit_renumbers(comp, comp_type, comp_id, n, syn) ==
    Result(comp, comp_type, JStr(comp_type.val \o "-" \o ToString(n)),
           ExpandChildren(GetOr(comp, "children", EmptyList), n + 1,
                          Append(syn, comp_type.val \o "-" \o ToString(n))))

ExpandExplicit(comp, comp_type, comp_id, n, syn) ==
    IF Truthy(comp_id)
    THEN Result(comp, comp_type, comp_id,
                ExpandChildren(GetOr(comp, "children", EmptyList), n, syn))
    ELSE Result(comp, comp_type, JStr(comp_type.val \o "-" \o ToString(n)),
                ExpandChildren(GetOr(comp, "children", EmptyList), n + 1,
                               Append(syn, comp_type.val \o "-" \o ToString(n))))

_expand_explicit_component(comp, n, syn) ==
    ExpandExplicit(comp, GetOr(comp, "type", JStr("container")),
                   GetOr(comp, "id", JNull), n, syn)

\* the entries one service definition adds to the result
RECURSIVE ServiceEntries(_, _)
ServiceEntries(svc, i) ==
    IF i > Len(svc.keys) THEN <<>>
    ELSE LET key == svc.keys[i]
             value == svc.items[i]
             tools == GetOr(value, "tools", JStr("*"))
             entry == CASE value = JStr("*") \/ value = JNull -> JStr(key)
                        [] IsList(value) ->
                              JDict(<<"service", "tools">>, <<JStr(key), value>>)
                        [] IsDict(value) /\ tools = JStr("*") -> JStr(key)
                        [] IsDict(value) ->
                              JDict(<<"service", "tools", "config">>,
                                    <<JStr(key), tools, Pick(value, LAMBDA k : k # "tools")>>)
                        [] OTHER -> JStr(key)
         IN  <<entry>> \o ServiceEntries(svc, i + 1)

RECURSIVE _expand_services(_)
_expand_services(services) ==
    IF ~Iterable(services) THEN Raised("TypeError")
    ELSE IF ~IsList(services) THEN _expand_services(JList(IterItems(services)))
    ELSE IF services.items = <<>> THEN EmptyList
    ELSE LET svc == Head(services.items)
             rest == _expand_services(JList(Tail(services.items)))
             mine == CASE IsStr(svc) -> <<svc>>
                       [] IsDict(svc) -> ServiceEntries(svc, 1)
                       [] OTHER -> <<>>
         IN  JList(mine \o rest.items)

_expand_lifecycle(lifecycle) ==
    IF ~Truthy(lifecycle) THEN EmptyDict
    ELSE IF ~IsDict(lifecycle) THEN Raised("AttributeError")
    ELSE JDict(lifecycle.keys,
               [i \in 1..Len(lifecycle.items) |->
                   LET action == lifecycle.items[i]
                   IN  CASE IsStr(action) -> JList(<<action>>)
                         [] IsList(action) -> action
                         [] OTHER -> EmptyList])

\* the expanded UI specification around the expanded lifecycle hooks and
\* components
ExpandedUi(ui, lifecycle_hooks, components, n) ==
    IF IsRaised(lifecycle_hooks) THEN Made(lifecycle_hooks, n, <<>>)
    ELSE IF IsRaised(components.out) THEN components
    ELSE Made(JDict(<<"type", "title", "layout", "lifecycle_hooks", "components">>,
                    <<JStr("app"),
                      GetOr(ui, "title", JStr("Untitled")),
                      GetOr(ui, "layout", JStr("vertical")),
                      lifecycle_hooks,
                      components.out>>),
              components.n, components.syn)

\* _expand_ui of a parser whose id counter is n
_expand_ui(ui, n) ==
    IF ~Truthy(ui)
    THEN Made(JDict(<<"type", "title", "layout", "components">>,
                    <<JStr("app"), JStr("Untitled"), JStr("vertical"), EmptyList>>), n, <<>>)
    ELSE IF ~IsDict(ui) THEN Made(Raised("AttributeError"), n, <<>>)
    ELSE ExpandedUi(ui, _expand_lifecycle(GetOr(ui, "lifecycle", EmptyDict)),
                    _expand_components(GetOr(ui, "components", EmptyList), n, <<>>), n)

\* what BlueprintParser.parse leaves behind: the package it returns or the
\* exception it raises (exc: its type), the templates and the id counter,
\* and the synthetic ids it handed out
Returned(package, tpl, made) ==
    [ok |-> TRUE, package |-> package, exc |-> "", error |-> "", templates |-> tpl,
     n |-> made.n, syn |-> made.syn]
ValidationError(error, tpl, n) ==
    [ok |-> FALSE, package |-> JNull, exc |-> "ValidationError", error |-> error,
     templates |-> tpl, n |-> n, syn |-> <<>>]
Escaped(exc, tpl, n, syn) ==
    [ok |-> FALSE, package |-> JNull, exc |-> exc, error |-> "", templates |-> tpl,
     n |-> n, syn |-> syn]

\* datetime.utcnow().isoformat() + "Z"
UtcNow == JStr("utcnow")

\* parse's return statement: the services are expanded first, then the UI
Package(bp, app, services, ui, n) ==
    IF IsRaised(services) THEN Escaped(services.val, GetOr(bp, "templates", EmptyDict), n, <<>>)
    ELSE IF IsRaised(ui.out)
    THEN Escaped(ui.out.val, GetOr(bp, "templates", EmptyDict), ui.n, ui.syn)
    ELSE
    Returned(JDict(<<"id", "name", "description", "icon", "category", "version",
                     "author", "created_at", "updated_at", "services",
                     "permissions", "tags", "ui_spec", "config">>,
                   <<Get(app, "id"), Get(app, "name"),
                     GetOr(app, "description", JStr("")),
                     GetOr(app, "icon", JNull),
                     GetOr(app, "category", JNull),
                     GetOr(app, "version", JStr("1.0.0")),
                     GetOr(app, "author", JStr("user")),
                     UtcNow, UtcNow,
                     services,
                     GetOr(app, "permissions", JList(<<JStr("STANDARD")>>)),
                     GetOr(app, "tags", EmptyList),
                     ui.out,
                     GetOr(bp, "config", EmptyDict)>>),
             GetOr(bp, "templates", EmptyDict), ui)

\* parse from the required fields on; app.get raises AttributeError unless
\* app is a dict
ParseApp(bp, app, tpl, n) ==
    IF ~IsDict(app) THEN Escaped("AttributeError", tpl, n, <<>>)
    ELSE IF ~Truthy(GetOr(app, "id", JNull))
    THEN ValidationError("app.id is required", tpl, n)
    ELSE IF ~Truthy(GetOr(app, "name", JNull))
    THEN ValidationError("app.name is required", tpl, n)
    ELSE Package(bp, app, _expand_services(GetOr(bp, "services", EmptyList)),
                 _expand_ui(GetOr(bp, "ui", EmptyDict), n), n)

\* parse from extract_json's result on
ParseJson(parsed, tpl, n) ==
    IF ~parsed.ok THEN ValidationError("Invalid JSON: " \o parsed.error, tpl, n)
    ELSE IF ~Truthy(parsed.value) \/ ~IsDict(parsed.value)
    THEN ValidationError("Invalid Blueprint format: expected JSON object", tpl, n)
    ELSE IF ~HasKey(parsed.value, "app")
    THEN ValidationError("Invalid Blueprint: missing 'app' section", tpl, n)
    ELSE ParseApp(parsed.value, Get(parsed.value, "app"), tpl, n)

\* self._id_counter = 0
ResetCounter(n) == 0

\* BlueprintParser.parse(bp_content) without the reset of the id counter
M_Parsed_no_reset(content_, tpl, n) ==
    ParseJson(json_extract_json(content_, TRUE), tpl, n)

\* BlueprintParser.parse(bp_content) of a parser whose templates are tpl and
\* whose id counter is n
Parsed(content_, tpl, n) ==
    ParseJson(json_extract_json(content_, TRUE), tpl, ResetCounter(n))

\* parse_blueprint(content): a fresh parser parses the content
parse_blueprint(content_) == Parsed(content_, EmptyDict, 0)

\* BlueprintParser.__init__
BlueprintParser_init ==
    /\ templates = EmptyDict
    /\ _id_counter = 0
    /\ bp_result = <<>>
    /\ earlier = <<>>
    /\ recompiled = <<>>

\* no text is being parsed
ParserIdle ==
    /\ HAS_MSGSPEC = TRUE /\ HAS_JSON_REPAIR = TRUE
    /\ bp_content = Text("no_object", JNull) /\ repair = TRUE /\ json_result = <<>>
    /\ BlueprintParser_init

(***************************************************************************)
(* The request model.                                                      *)
(***************************************************************************)
Init ==
    /\ ParserIdle
    /\ ExtIdle
    /\ rpc \in {"StreamUI", "GenerateUI"}
    /\ stub \in BOOLEAN
    /\ use_llm \in BOOLEAN
    /\ stub => ~use_llm
    /\ request \in Requests
    /\ stub => request = {}
    /\ s_pc = IF rpc = "StreamUI" THEN "start" ELSE "loop"
    /\ out = <<>>
    /\ token_buffer = <<>>
    /\ token_count = 0
    /\ ui_spec = <<>>
    /\ response = <<>>
    /\ g_pc = "created"
    /\ content = <<>>
    /\ chunk_count = 0
    /\ llm_streams = 0
    /\ llm_failure = "none"
    /\ item = NoItem
    /\ yielded = <<>>
    /\ ui_cache = {}
    /\ served = <<>>
    /\ LRUCache_init(1, <<>>, [t \in Threads \cup {Caller} |-> 0])

\* steps of the generator that need nothing from outside the process
GeneratorNext ==
    \/ GenStartRules
    \/ GenStartLLM
    \/ RuleYieldSpec
    \/ GenReturn

\* steps that happen only when the upstream LLM (or the stand-in) produces
\* the next chunk, the end of its stream, or an error
UpstreamNext ==
    \/ LLMChunk
    \/ LLMRaise
    \/ LLMEnd
    \/ StubYield
    \/ StubEnd
    \/ StubRaise

ServicerNext ==
    \/ StreamUI_Start
    \/ StreamUI_Thought
    \/ StreamUI_Item
    \/ StreamUI_Flush
    \/ StreamUI_FinalThought
    \/ StreamUI_Complete
    \/ StreamUI_Except
    \/ GenerateUI_Skip
    \/ GenerateUI_Return
    \/ GenerateUI_Except

Next == GeneratorNext \/ UpstreamNext \/ ServicerNext \/ Disconnect \/ NewRequest

vars == <<streamVars, cacheVars, parserVars, extVars>>

Spec == Init /\ [][Next]_vars

\* the program's own steps are taken whenever they stay possible; nothing
\* obliges the upstream LLM to deliver, nor the caller to go away
SpecFair == Init /\ [][Next]_vars /\ WF_vars(GeneratorNext \/ ServicerNext)

(***************************************************************************)
(* The cache model: request threads calling one LRUCache, no UI request    *)
(* being looked at.                                                        *)
(***************************************************************************)
MaxSizes == {1, 2}
TTLs == {<<>>, <<1>>}

CacheInit ==
    /\ rpc = "none" /\ stub = FALSE /\ use_llm = FALSE /\ request = {}
    /\ s_pc = "done" /\ out = <<>> /\ token_buffer = <<>> /\ token_count = 0
    /\ ui_spec = <<>> /\ response = <<>> /\ g_pc = "done" /\ content = <<>>
    /\ chunk_count = 0 /\ llm_streams = 0 /\ llm_failure = "none"
    /\ item = NoItem /\ yielded = <<>> /\ ui_cache = {} /\ served = <<>>
    /\ ParserIdle
    /\ ExtIdle
    /\ \E m \in MaxSizes, ttl \in TTLs : LRUCache_init(m, ttl, [t \in Threads \cup {Caller} |->
                                  CASE t = "t1" -> MaxCalls [] t = "t2" -> 1 [] OTHER -> 0])

CacheNext ==
    \/ Tick
    \/ \E t \in Threads :
          \/ get_call(t) \/ get_contains(t) \/ get_read(t) \/ get_del(t)
          \/ get_len(t) \/ get_size(t) \/ get_miss(t) \/ get_miss_store(t)
          \/ get_move(t) \/ get_hit(t) \/ get_hit_store(t)
          \/ set_call(t) \/ set_contains(t) \/ set_del(t) \/ set_insert(t)
          \/ set_check(t) \/ set_popitem(t) \/ set_evictions(t)
          \/ set_evictions_store(t) \/ set_len(t) \/ set_size(t)
          \/ delete_call(t) \/ delete_contains(t) \/ delete_del(t)
          \/ delete_len(t) \/ delete_size(t)
          \/ clear_call(t) \/ clear_clear(t) \/ clear_size(t)

SpecCache == CacheInit /\ [][CacheNext]_vars

(***************************************************************************)
(* One caller: the calls of a single thread on one LRUCache, each call     *)
(* completing before the next begins (tests/test_cache.py).                *)
(***************************************************************************)
LRUInit ==
    /\ rpc = "none" /\ stub = FALSE /\ use_llm = FALSE /\ request = {}
    /\ s_pc = "done" /\ out = <<>> /\ token_buffer = <<>> /\ token_count = 0
    /\ ui_spec = <<>> /\ response = <<>> /\ g_pc = "done" /\ content = <<>>
    /\ chunk_count = 0 /\ llm_streams = 0 /\ llm_failure = "none"
    /\ item = NoItem /\ yielded = <<>> /\ ui_cache = {} /\ served = <<>>
    /\ ParserIdle
    /\ ExtIdle
    /\ \E m \in MaxSizes, ttl \in TTLs :
          \* with a TTL, where the times of the calls multiply the cases, the
          \* caller makes one call fewer
          LRUCache_init(m, ttl, [t \in Threads \cup {Caller} |->
                                    CASE t # Caller -> 0
                                      [] ttl = <<>> -> MaxSeqCalls
                                      [] OTHER -> MaxSeqCalls - 1])

LRUNext ==
    \/ Tick
    \/ get_call(Caller) \/ get_contains(Caller) \/ get_read(Caller) \/ get_del(Caller)
    \/ get_len(Caller) \/ get_size(Caller) \/ get_miss(Caller) \/ get_miss_store(Caller)
    \/ get_move(Caller) \/ get_hit(Caller) \/ get_hit_store(Caller)
    \/ set_call(Caller) \/ set_contains(Caller) \/ set_insert(Caller) \/ set_del(Caller)
    \/ set_check(Caller) \/ set_popitem(Caller) \/ set_evictions(Caller)
    \/ set_evictions_store(Caller) \/ set_len(Caller) \/ set_size(Caller)
    \/ delete_call(Caller) \/ delete_contains(Caller) \/ delete_del(Caller)
    \/ delete_len(Caller) \/ delete_size(Caller)
    \/ clear_call(Caller) \/ clear_clear(Caller) \/ clear_size(Caller)

SpecLRU == LRUInit /\ [][LRUNext]_vars

(***************************************************************************)
(* The parser model: one text, handed to extract_json and to                *)
(* BlueprintParser.parse.                                                   *)
(***************************************************************************)
MaxChildren == 2
MaxParses == 2

\* the sequences over S of length 1..n
Seqs(S, n) == UNION {[1..k -> S] : k \in 1..n}

Explicit(type, id) == JDict(<<"type", "id">>, <<JStr(type), JStr(id)>>)
Compact(key, props) == JDict(<<key>>, <<props>>)
Row(id, kids) ==
    IF id = <<>>
    THEN JDict(<<"type", "children">>, <<JStr("row"), JList(kids)>>)
    ELSE JDict(<<"type", "id", "children">>, <<JStr("row"), JStr(id[1]), JList(kids)>>)
Col(key, kids) == Compact(key, JDict(<<"children">>, <<JList(kids)>>))

ChildLeaves ==
    {JStr("Hello"), EmptyDict, JDict(<<"type">>, <<JStr("button")>>),
     Explicit("button", "b1"), Compact("button", EmptyDict),
     Compact("button#b1", EmptyDict)}
\* the leaves that stand beside another component
PairLeaves == ChildLeaves \cup {Compact("button#a#b", EmptyDict)}
Leaves ==
    PairLeaves
    \cup {JLit("1"), JDict(<<"type">>, <<JStr("row")>>), Explicit("button", ""),
          Explicit("row", "b1"), Explicit("row", "")}
    \cup {Compact(k, EmptyDict) : k \in {"button#", "button#button", "text"}}
    \cup {Compact("button#b2", JDict(<<"label", "@click">>, <<JStr("Go"), JStr("ui.go")>>)),
          JDict(<<"type", "id", "props">>,
                <<JStr("button"), JStr("b2"),
                  JDict(<<"label", "@click">>, <<JStr("Go"), JStr("ui.go")>>)>>),
          Compact("button#b1", JDict(<<"$template", "text">>,
                                     <<JStr("primary"), JStr("Save")>>)),
          JDict(<<"type", "id", "props">>,
                <<JStr("button"), JStr("b1"),
                  JDict(<<"$template">>, <<JStr("primary")>>)>>),
          JDict(<<"type", "id", "children">>, <<JStr("row"), JStr("c1"), JLit("5")>>),
          Col("col#c1", <<>>),
          Explicit("sidebar", "b1"),
          JDict(<<"type", "id", "@click">>, <<JStr("button"), JStr("b2"), JStr("ui.go")>>)}

Parents(kidss) ==
    UNION {{Row(<<>>, kids), Row(<<"c1">>, kids), Col("col", kids), Col("col#c1", kids)} :
              kids \in kidss}
Components ==
    Leaves
    \cup Parents(Seqs(ChildLeaves, MaxChildren))
    \cup {Col("col#c2", <<p>>) : p \in Parents(Seqs(ChildLeaves, 1))}
ComponentLists ==
    {<<c>> : c \in Components}
    \cup {<<l, c>> : l \in PairLeaves, c \in Components}
    \cup {<<c, l>> : l \in PairLeaves, c \in Components}

App == JDict(<<"id", "name">>, <<JStr("demo"), JStr("Demo")>>)
Ui(components) == JDict(<<"title", "components">>, <<JStr("Demo"), JList(components)>>)
Templates ==
    JDict(<<"primary">>,
          <<JDict(<<"variant", "text">>, <<JStr("primary"), JStr("OK")>>)>>)
Blueprint(components) ==
    JDict(<<"app", "templates", "ui">>, <<App, Templates, Ui(components)>>)
\* a Blueprint whose app, services and ui sections are the given values
Shaped(app, services, ui) == JDict(<<"app", "services", "ui">>, <<app, services, ui>>)
DefaultBlueprint == Blueprint(<<Compact("button", EmptyDict), JStr("Hello")>>)
OtherBlueprints ==
    {EmptyDict,
     JDict(<<"ui">>, <<Ui(<<>>)>>),
     JDict(<<"app">>, <<JDict(<<"name">>, <<JStr("Demo")>>)>>),
     JDict(<<"app">>, <<JDict(<<"id", "name">>, <<JStr(""), JStr("Demo")>>)>>),
     JDict(<<"app">>, <<JDict(<<"id">>, <<JStr("demo")>>)>>),
     JDict(<<"app">>, <<App>>),
     JDict(<<"app", "ui">>, <<App, EmptyDict>>),
     JDict(<<"app", "services", "templates", "ui">>,
           <<App,
             JList(<<JStr("storage"),
                     JDict(<<"fs", "net">>, <<JStr("*"), JList(<<JStr("get")>>)>>),
                     JDict(<<"ui">>, <<JDict(<<"tools", "scope">>,
                                             <<JList(<<JStr("toast")>>), JStr("app")>>)>>)>>),
             JDict(<<"primary">>, <<JDict(<<"variant">>, <<JStr("primary")>>)>>),
             JDict(<<"lifecycle", "components">>,
                   <<JDict(<<"on_mount">>, <<JStr("storage.get")>>),
                     JList(<<JStr("Hello")>>)>>)>>)}
    \* malformed shapes
    \cup {Shaped(app, EmptyList, Ui(<<JStr("Hello")>>)) :
              app \in {JStr("x"), JNull, JLit("5"), EmptyList, EmptyDict}}
    \cup {Shaped(App, services, Ui(<<JStr("Hello")>>)) :
              services \in {JStr("s"), JNull, JLit("5"), JDict(<<"fs">>, <<JStr("*")>>)}}
    \cup {Shaped(App, EmptyList, ui) :
              ui \in {JStr("x"), JNull, JLit("5"), EmptyList, JList(<<JStr("Hello")>>),
                      JDict(<<"lifecycle">>, <<JStr("x")>>)}}
    \cup {Shaped(App, EmptyList, JDict(<<"components">>, <<components>>)) :
              components \in {JStr("x"), JNull, JLit("5"),
                              JDict(<<"button">>, <<EmptyDict>>)}}

\* the texts a parser has parsed before it is handed bp_content
EarlierTexts ==
    {Text("valid", Blueprint(<<JStr("Hello"), JStr("World")>>)),
     Text("hopeless", DefaultBlueprint)}

Texts ==
    {Text("valid", Blueprint(cs)) : cs \in ComponentLists}
    \cup {Text("valid", bp) : bp \in OtherBlueprints}
    \cup {Text(kind, DefaultBlueprint) : kind \in Kinds}

StreamIdle ==
    /\ rpc = "none" /\ stub = FALSE /\ use_llm = FALSE /\ request = {}
    /\ s_pc = "done" /\ out = <<>> /\ token_buffer = <<>> /\ token_count = 0
    /\ ui_spec = <<>> /\ response = <<>> /\ g_pc = "done" /\ content = <<>>
    /\ chunk_count = 0 /\ llm_streams = 0 /\ llm_failure = "none"
    /\ item = NoItem /\ yielded = <<>> /\ ui_cache = {} /\ served = <<>>

ParserInit ==
    /\ StreamIdle
    /\ LRUCache_init(1, <<>>, [t \in Threads \cup {Caller} |-> 0])
    /\ HAS_MSGSPEC \in BOOLEAN
    /\ HAS_JSON_REPAIR \in BOOLEAN
    /\ bp_content \in Texts
    /\ repair \in BOOLEAN
    \* the installed backends and the repair flag vary for one Blueprint
    /\ bp_content.value # DefaultBlueprint => HAS_MSGSPEC /\ HAS_JSON_REPAIR /\ repair
    /\ json_result = <<>>
    /\ BlueprintParser_init
    /\ ExtIdle

\* a call of extract_json(bp_content, repair), made with the Blueprint for
\* which the installed backends and the repair flag vary
json_extract_json_call ==
    /\ json_result = <<>>
    /\ bp_content.value = DefaultBlueprint
    /\ bp_result = <<>> /\ earlier = <<>>
    /\ json_result' = <<json_extract_json(bp_content, repair)>>
    /\ UNCHANGED <<HAS_MSGSPEC, HAS_JSON_REPAIR, bp_content, repair, templates, _id_counter,
                   bp_result, earlier, recompiled, streamVars, cacheVars, extVars>>

\* what a call of parse leaves in the parser
ParserAfter(r) ==
    /\ _id_counter' = r.n
    /\ templates' = r.templates

\* the result r of a call of parse(bp_content)
ParseDone(r) ==
    /\ bp_result' = Append(bp_result, r)
    /\ ParserAfter(r)

\* a call of BlueprintParser.parse(bp_content)
BlueprintParser_parse ==
    /\ Len(bp_result) < MaxParses
    /\ recompiled = <<>>
    /\ ParseDone(Parsed(bp_content, templates, _id_counter))
    /\ UNCHANGED <<HAS_MSGSPEC, HAS_JSON_REPAIR, bp_content, repair, json_result,
                   earlier, recompiled, streamVars, cacheVars, extVars>>

\* a call of BlueprintParser.parse with another text, before bp_content
BlueprintParser_parse_earlier ==
    /\ bp_result = <<>> /\ earlier = <<>> /\ json_result = <<>>
    /\ \E t \in EarlierTexts :
          /\ earlier' = <<t>>
          /\ ParserAfter(Parsed(t, templates, _id_counter))
    /\ UNCHANGED <<HAS_MSGSPEC, HAS_JSON_REPAIR, bp_content, repair, json_result,
                   bp_result, recompiled, streamVars, cacheVars, extVars>>

\* what _expand_components leaves behind
ExpandDone(r) ==
    /\ recompiled' = <<r.out>>
    /\ _id_counter' = r.n

\* a call of _expand_components with the components parse has compiled
BlueprintParser_expand_components ==
    /\ Len(bp_result) = 1 /\ bp_result[1].ok
    /\ recompiled = <<>>
    /\ ExpandDone(_expand_components(
                      Get(Get(bp_result[1].package, "ui_spec"), "components"),
                      _id_counter, <<>>))
    /\ UNCHANGED <<HAS_MSGSPEC, HAS_JSON_REPAIR, bp_content, repair, json_result,
                   templates, bp_result, earlier, streamVars, cacheVars, extVars>>

ParserNext ==
    \/ json_extract_json_call
    \/ BlueprintParser_parse
    \/ BlueprintParser_parse_earlier
    \/ BlueprintParser_expand_components

SpecParser == ParserInit /\ [][ParserNext]_vars


(***************************************************************************)
(* core/validate.py: the checks a delivered specification has to pass      *)
(***************************************************************************)
\* BlueprintValidator.validate: TRUE iff no ValidationError is raised
BlueprintValidator_validate(spec_dict) ==
    /\ validate_json_size(JsonLen(spec_dict), MAX_UI_SPEC_SIZE)
    /\ validate_json_depth(spec_dict, MAX_JSON_DEPTH, 0)
    /\ HasKey(spec_dict, "title")
    /\ HasKey(spec_dict, "components")
    /\ Get(spec_dict, "components").kind = "list"

(***************************************************************************)
(* Vocabulary of the properties                                            *)
(***************************************************************************)
IsTerminal(tok) == tok.type \in {"COMPLETE", "ERROR"}
LastOut == out[Len(out)]
CountOut(type) == Cardinality({i \in 1..Len(out) : out[i].type = type})
CountYielded(kind) == Cardinality({i \in 1..Len(yielded) : yielded[i].kind = kind})
MaxOf(S) == IF S = {} THEN 0 ELSE CHOOSE m \in S : \A k \in S : m >= k

RECURSIVE Flatten(_)
Flatten(texts) == IF texts = <<>> THEN <<>> ELSE Head(texts) \o Flatten(Tail(texts))

\* the items the servicer has taken from the generator
Handled == IF item.kind = "none" THEN yielded ELSE SubSeq(yielded, 1, Len(yielded) - 1)

\* the string tokens handled since the last reset signal, concatenated
HandledText ==
    LET r == MaxOf({i \in 1..Len(Handled) : Handled[i].kind = "reset"})
        strs == SelectSeq(SubSeq(Handled, r + 1, Len(Handled)), LAMBDA it : it.kind = "str")
    IN  Flatten([i \in 1..Len(strs) |-> strs[i].text])

\* the TOKEN contents sent since the last GENERATION_START, concatenated
EmittedText ==
    LET g == MaxOf({i \in 1..Len(out) : out[i].type = "GENERATION_START"})
        toks == SelectSeq(SubSeq(out, g + 1, Len(out)), LAMBDA t : t.type = "TOKEN")
    IN  Flatten([i \in 1..Len(toks) |-> toks[i].content])

StreamEnded == rpc = "StreamUI" /\ s_pc = "done"
EndedInError ==
    \/ StreamEnded /\ out # <<>> /\ LastOut.type = "ERROR"
    \/ rpc = "GenerateUI" /\ response # <<>> /\ ~response[1].success
EndedInSuccess ==
    \/ StreamEnded /\ out # <<>> /\ LastOut.type = "COMPLETE"
    \/ rpc = "GenerateUI" /\ response # <<>> /\ response[1].success

(***************************************************************************)
(* C1: StreamUI ends a token stream with exactly one terminal token,       *)
(* COMPLETE or ERROR: a terminal token is the last token sent, and the     *)
(* method has finished exactly when the last token sent is terminal;       *)
(* whether the generator succeeds, raises at once or raises mid-stream.    *)
(***************************************************************************)
C1_OneTerminal ==
    rpc = "StreamUI" =>
       /\ \A i \in 1..Len(out) : IsTerminal(out[i]) => i = Len(out)
       /\ (s_pc = "done") <=> (out # <<>> /\ IsTerminal(LastOut))

\* the generator raised after it had yielded tokens, and the stream has ended
C1_Witness ==
    /\ StreamEnded /\ g_pc = "raised" /\ CountYielded("str") >= 1
    /\ LastOut.type = "ERROR"

(***************************************************************************)
(* C2: a failure of the upstream LLM (model load, or an exception before   *)
(* or after chunks were yielded) is recovered inside generate_ui_stream:   *)
(* llm.stream is called at most once, no exception leaves the generator,   *)
(* the rule-based JSON token and then the rule-based UISpec follow, and    *)
(* the generator ends with that UISpec as its last item.                   *)
(***************************************************************************)
C2_UpstreamFailureRecovered ==
    ~stub =>
       /\ llm_streams <= 1
       /\ g_pc # "raised"
       /\ llm_failure \in {"load", "stream"} =>
             /\ g_pc \in {"rule_json", "rule_spec", "done"}
             /\ g_pc = "rule_json" =>
                   yielded[Len(yielded)] = StrItem(JsonDumps(rule_based(request)))
             /\ g_pc \in {"rule_spec", "done"} =>
                   /\ Len(yielded) >= 2
                   /\ yielded[Len(yielded)] = SpecItem(rule_based(request))
                   /\ yielded[Len(yielded) - 1] = StrItem(JsonDumps(rule_based(request)))

\* the upstream raised after a token had been yielded; the generator is done
C2_Witness ==
    /\ ~stub /\ llm_failure = "stream" /\ content # <<>> /\ g_pc = "done"
    /\ yielded[Len(yielded)].kind = "spec"

(***************************************************************************)
(* C3: when the upstream LLM fails after a token was yielded, exactly one  *)
(* reset signal is yielded before the first fallback token, and the        *)
(* caller's stream holds exactly one RESET followed by a fresh             *)
(* GENERATION_START and ends with COMPLETE and non-empty components.       *)
(***************************************************************************)
C3_ResetBeforeFallback ==
    (~stub /\ llm_failure = "stream" /\ content # <<>>) =>
       /\ CountYielded("reset") = 1
       /\ StreamEnded =>
             /\ CountOut("RESET") = 1
             /\ CountOut("GENERATION_START") = 2
             /\ LastOut.type = "COMPLETE"
             /\ ui_spec # <<>> /\ Get(ui_spec[1], "components").items # <<>>

(***************************************************************************)
(* C4: when the LLM stream ends without an upstream error but its text     *)
(* holds no parseable JSON object, or the parsed object fails validation,  *)
(* the request ends with an explicit error and no specification: no        *)
(* rule-based specification is yielded in its place.                       *)
(***************************************************************************)
C4_ParseFailureSurfaced ==
    (~stub /\ llm_failure \in {"parse", "validate"}) =>
       /\ CountYielded("spec") = 0
       /\ s_pc = "done" => EndedInError

(***************************************************************************)
(* C5: every specification delivered as successful (StreamUI ending in     *)
(* COMPLETE, GenerateUI answering success) passes the structural, size     *)
(* and depth checks, on the streaming and on the non-streaming path.       *)
(***************************************************************************)
C5_DeliveredSpecValid ==
    /\ (StreamEnded /\ LastOut.type = "COMPLETE") =>
          BlueprintValidator_validate(ui_spec[1])
    /\ (rpc = "GenerateUI" /\ response # <<>> /\ response[1].success) =>
          BlueprintValidator_validate(response[1].ui_spec[1])

C8_AllTextFlushedAtEnd ==
    StreamEnded => EmittedText = HandledText

(***************************************************************************)
(* C8 (amended): while the loop runs, the TOKEN contents sent since the    *)
(* last reset followed by the buffered text are the string tokens handled  *)
(* since then, in order; all buffered text is flushed before COMPLETE.     *)
(* (A stream ending in ERROR drops the text still buffered.)               *)
(***************************************************************************)
C8_BatchingPreservesText ==
    rpc = "StreamUI" =>
       /\ s_pc = "loop" => EmittedText \o token_buffer = HandledText
       /\ (s_pc \in {"final_thought", "complete"} \/ (StreamEnded /\ LastOut.type = "COMPLETE"))
             => EmittedText = HandledText

\* a completed stream whose text went out in more than one TOKEN
C8_Witness ==
    /\ StreamEnded /\ LastOut.type = "COMPLETE" /\ ~stub
    /\ CountOut("TOKEN") >= 2 /\ CountYielded("str") >= 3

(***************************************************************************)
(* C9: every request served by UIGeneratorAgent eventually reaches its     *)
(* terminal item (the stream ends, GenerateUI answers, or the caller has   *)
(* gone), also when the upstream LLM never delivers its next chunk.        *)
(***************************************************************************)
C9_EventuallyTerminal == <>(stub \/ s_pc \in {"done", "cancelled"})

(***************************************************************************)
(* C10: the mutating operations of LRUCache called from concurrently       *)
(* running request threads are serialized: no interleaving of their steps  *)
(* makes a call raise an exception, and once both calls have completed     *)
(* there are at most max_size entries and stats.size is their number.      *)
(***************************************************************************)
C10_CacheOpsSerialized ==
    /\ \A t \in Threads : threads[t].exc = ""
    /\ (\A t \in Threads : threads[t].pc = "idle") =>
          /\ Len(cache) <= max_size
          /\ stats.size = Len(cache)

(***************************************************************************)
(* Vocabulary of the claims about the single caller's LRUCache calls.      *)
(***************************************************************************)
CallerIdle == threads[Caller].pc = "idle"
\* the cache key of the i-th call
HashOf(i) == compute_key(history[i].key)
KeysOf(d) == {d[i].key : i \in 1..Len(d)}
Entry(d, k) == d[IndexOf(d, k)]
\* the last call, complete
Last == history[Len(history)]
LastHash == HashOf(Len(history))
Completed(op) == CallerIdle /\ history # <<>> /\ Last.op = op /\ Last.exc = ""
\* the latest of the calls before the n-th that set cache key k (0: none)
LastSet(k, n) ==
    MaxOf({i \in 1..(n - 1) : history[i].op = "set" /\ HashOf(i) = k})
\* the latest of the calls before the n-th that used cache key k: a set, or
\* a get that returned its value
LastUse(k, n) ==
    MaxOf({i \in 1..(n - 1) :
              /\ HashOf(i) = k
              /\ \/ history[i].op = "set"
                 \/ history[i].op = "get" /\ history[i].ret # <<>>})
\* the cache keys the last call removed
Gone == KeysOf(Last.pre) \ KeysOf(cache)

\* the calls so far: max_size + 1 sets of keys that do not collide, into the
\* new cache, then gets only
FilledBeyondCapacity ==
    /\ ttl_seconds = <<>>
    /\ Len(history) >= max_size + 1
    /\ \A i \in 1..(max_size + 1) : history[i].op = "set"
    /\ \A i, j \in 1..(max_size + 1) : i # j => HashOf(i) # HashOf(j)
    /\ \A i \in (max_size + 2)..Len(history) : history[i].op = "get"

(***************************************************************************)
(* C11: in a new LRUCache of capacity N without TTL, after set was called  *)
(* for N+1 keys whose cache keys do not collide, with no get in between,   *)
(* exactly the first key is gone: N entries are stored, the other N keys   *)
(* hold the values set for them, and every get that follows returns None   *)
(* for the first key and the value set for each of the others.             *)
(***************************************************************************)
C11_EvictsFirstInserted ==
    (FilledBeyondCapacity /\ CallerIdle) =>
        /\ Len(cache) = max_size
        /\ ~Contains(cache, HashOf(1))
        /\ \A i \in 2..(max_size + 1) :
              /\ Contains(cache, HashOf(i))
              /\ Entry(cache, HashOf(i)).value = history[i].value
        /\ \A g \in (max_size + 2)..Len(history) :
              /\ history[g].exc = ""
              /\ history[g].ret =
                    IF \E i \in 2..(max_size + 1) : HashOf(i) = HashOf(g)
                    THEN <<history[CHOOSE i \in 2..(max_size + 1) : HashOf(i) = HashOf(g)].value>>
                    ELSE <<>>

\* capacity 2: three sets, then get of the first key has returned None
C11_Witness ==
    /\ FilledBeyondCapacity /\ CallerIdle
    /\ max_size = 2 /\ Len(history) = 4
    /\ history[4].key = history[1].key
    /\ history[4].ret = <<>>

(***************************************************************************)
(* C12: whenever a call of set, get, delete or clear has completed, at     *)
(* most max_size entries are stored; a set of a key that is not stored,    *)
(* into a cache holding max_size entries, removes exactly one of them, and *)
(* any other set removes none.                                             *)
(***************************************************************************)
C12_SizeBound ==
    /\ CallerIdle => Len(cache) <= max_size
    /\ Completed("set") =>
          IF Len(Last.pre) = max_size /\ ~Contains(Last.pre, LastHash)
          THEN Cardinality(Gone) = 1 /\ Len(cache) = max_size
          ELSE Gone = {}

\* a set into the full cache of capacity 2 has evicted
C12_Witness ==
    /\ Completed("set") /\ max_size = 2
    /\ Len(Last.pre) = max_size /\ ~Contains(Last.pre, LastHash)
    /\ Cardinality(Gone) = 1 /\ Len(cache) = 2

(***************************************************************************)
(* C13: when a set evicts, the evicted entry is the one whose set happened *)
(* earliest among the entries stored when the call began, also when that   *)
(* entry was returned by a get after later entries were inserted.          *)
(***************************************************************************)
C13_EvictionByInsertionOrder ==
    (Completed("set") /\ ~Contains(Last.pre, LastHash)) =>
        \A x \in Gone, y \in KeysOf(Last.pre) :
            LastSet(x, Len(history)) <= LastSet(y, Len(history))

\* the last two calls: a get that returned a's value, then a set of a cache
\* key that was not stored, into the full cache
GetHitThenSetNew ==
    /\ Len(history) >= 2 /\ Completed("set")
    /\ history[Len(history) - 1].op = "get"
    /\ history[Len(history) - 1].ret # <<>>
    /\ Len(Last.pre) = max_size
    /\ ~Contains(Last.pre, LastHash)

\* a is still stored, and the one entry that went is the least recently
\* used of the others
KeepsHitEvictsLRU ==
    LET n == Len(history)
        a == HashOf(n - 1)
        others == KeysOf(Last.pre) \ {a}
    IN  /\ Contains(cache, a)
        /\ Entry(cache, a).value = history[n - 1].ret[1]
        /\ Cardinality(Gone) = 1
        /\ Gone \subseteq others
        /\ \A x \in Gone, y \in others : LastUse(x, n) <= LastUse(y, n)

ExpiredAt(timestamp, at) ==
    ttl_seconds # <<>> /\ at - timestamp >= ttl_seconds[1]

(***************************************************************************)
(* C15: with ttl_seconds = t, a get of a stored entry that is at least t   *)
(* old returns None, removes the entry and counts a miss; a get returns a  *)
(* value only of a stored entry younger than t (and then returns it); a    *)
(* set stores an entry stamped with the time of the call, also under a key *)
(* whose entry had expired.                                                *)
(***************************************************************************)
C15_LazyCompleteExpiry ==
    ttl_seconds # <<>> =>
        /\ Completed("get") =>
              LET stored == Contains(Last.pre, LastHash)
                  e == Entry(Last.pre, LastHash)
              IN  /\ (stored /\ ExpiredAt(e.timestamp, Last.at)) =>
                        /\ Last.ret = <<>>
                        /\ ~Contains(cache, LastHash)
                        /\ Len(cache) = Len(Last.pre) - 1
                  /\ (stored /\ ~ExpiredAt(e.timestamp, Last.at)) =>
                        Last.ret = <<e.value>>
                  /\ ~stored => Last.ret = <<>>
        /\ CallerIdle =>
              stats.misses = Cardinality({i \in 1..Len(history) :
                                 history[i].op = "get" /\ history[i].ret = <<>>})
        /\ Completed("set") =>
              /\ Contains(cache, LastHash)
              /\ Entry(cache, LastHash).value = Last.value
              /\ Entry(cache, LastHash).timestamp = Last.at

\* set, then a get at least t later that returned None and removed the
\* entry, then a set under the same cache key that stored a fresh entry
C15_Witness ==
    /\ ttl_seconds # <<>> /\ Completed("set") /\ Len(history) = 3
    /\ history[1].op = "set" /\ history[2].op = "get"
    /\ HashOf(1) = HashOf(2) /\ HashOf(2) = HashOf(3)
    /\ Contains(history[2].pre, HashOf(2))
    /\ history[2].ret = <<>>
    /\ ~Contains(Last.pre, LastHash)
    /\ Contains(cache, LastHash)
    /\ Entry(cache, LastHash).timestamp = Last.at

(***************************************************************************)
(* C16: a set of a key that is stored replaces the value and the timestamp *)
(* of its entry, leaves the number of entries and every other entry as     *)
(* they were, and a get of a stored, unexpired key returns the value of    *)
(* the most recent set of that key.                                        *)
(***************************************************************************)
C16_SetOverwrites ==
    /\ (Completed("set") /\ Contains(Last.pre, LastHash)) =>
          /\ Len(cache) = Len(Last.pre)
          /\ Gone = {}
          /\ Entry(cache, LastHash).value = Last.value
          /\ Entry(cache, LastHash).timestamp = Last.at
          /\ \A k \in KeysOf(Last.pre) \ {LastHash} :
                Entry(cache, k) = Entry(Last.pre, k)
    /\ (/\ Completed("get")
        /\ Contains(Last.pre, LastHash)
        /\ ~ExpiredAt(Entry(Last.pre, LastHash).timestamp, Last.at)) =>
          /\ LastSet(LastHash, Len(history)) > 0
          /\ Last.ret = <<history[LastSet(LastHash, Len(history))].value>>

\* capacity 2, full: the second key is set again with another value, and a
\* get returns the new value
C16_Witness ==
    /\ Completed("get") /\ Len(history) = 4 /\ max_size = 2
    /\ history[1].op = "set" /\ history[2].op = "set" /\ history[3].op = "set"
    /\ HashOf(1) # HashOf(2) /\ HashOf(2) = HashOf(3) /\ HashOf(3) = HashOf(4)
    /\ history[2].value # history[3].value
    /\ Last.ret = <<history[3].value>>
    /\ Len(cache) = 2

\* the request repeats one the process has served successfully: per the
\* cache's lifecycle its specification is the cached one
CacheHit == \E i \in 1..Len(served) : served[i].request = request /\ served[i].success

(***************************************************************************)
(* C17: for a request that repeats a request served successfully before    *)
(* (a cache hit), the generation stream does not call the LLM, and what it *)
(* has yielded when it ends is text followed by the specification as the   *)
(* last item.                                                              *)
(***************************************************************************)
C17_HitReplaysWithoutLLM ==
    (~stub /\ CacheHit) =>
        /\ llm_streams = 0
        /\ g_pc = "done" =>
              /\ yielded # <<>>
              /\ yielded[Len(yielded)].kind = "spec"
              /\ \A i \in 1..(Len(yielded) - 1) : yielded[i].kind = "str"

(***************************************************************************)
(* Vocabulary of the claims about core/json.py and blueprint/parser.py.    *)
(***************************************************************************)
Tiers == <<"msgspec", "json", "repair">>
Accepts(parser, t) ==
    CASE parser = "msgspec" -> t.kind = "valid"
      [] parser = "json" -> t.kind \in {"valid", "lenient"}
      [] OTHER -> t.kind \in {"valid", "lenient", "repairable"}

ParseReturned == bp_result # <<>> /\ bp_result[1].ok
NoDuplicates(s) == \A i, j \in 1..Len(s) : i # j => s[i] # s[j]

\* the components of the Blueprint handed in, and of the package returned
GivenComponents ==
    IterItems(GetOr(GetOr(bp_content.value, "ui", EmptyDict), "components", EmptyList))
CompiledComponents == Get(Get(bp_result[1].package, "ui_spec"), "components").items

\* a DSL component that compiles to a component: a string or a non-empty object
Compiles(c) == IsStr(c) \/ (IsDict(c) /\ c.keys # <<>>)
\* the non-empty explicit id a DSL component is given with, <<>> if none
GivenId(c) ==
    CASE IsDict(c) /\ HasKey(c, "type") ->
            IF HasKey(c, "id") /\ IsStr(Get(c, "id")) /\ Get(c, "id").val # ""
            THEN <<Get(c, "id").val>> ELSE <<>>
      [] IsDict(c) /\ c.keys # <<>> ->
            IF \E ty \in TypeNames, r \in IdParts \ {""} : c.keys[1] = ty \o "#" \o r
            THEN <<CHOOSE r \in IdParts : \E ty \in TypeNames : c.keys[1] = ty \o "#" \o r>>
            ELSE <<>>
      [] OTHER -> <<>>
\* the children a DSL component is given with
GivenChildren(c) ==
    CASE IsDict(c) /\ HasKey(c, "type") -> GetOr(c, "children", EmptyList).items
      [] IsDict(c) /\ c.keys # <<>> /\ IsDict(c.items[1]) ->
            GetOr(c.items[1], "children", EmptyList).items
      [] OTHER -> <<>>

\* every given component with an explicit id is compiled to a component with
\* that id, and so are its children
RECURSIVE KeepsIds(_, _)
KeepsIds(given, compiled) ==
    LET kept == SelectSeq(given, Compiles)
    IN  /\ Len(kept) = Len(compiled)
        /\ \A i \in 1..Len(kept) :
              /\ GivenId(kept[i]) # <<>> =>
                    Get(compiled[i], "id") = JStr(GivenId(kept[i])[1])
              /\ KeepsIds(GivenChildren(kept[i]),
                          GetOr(compiled[i], "children", EmptyList).items)

(***************************************************************************)
(* C18: extract_json with repair enabled tries the parsers in the fixed    *)
(* order strict fast parser (msgspec), lenient standard parser             *)
(* (json.loads), repair followed by a lenient parse, and stops at the      *)
(* first success; the repair tier is attempted whenever both earlier       *)
(* parsers fail, and an error is raised only after all three have failed.  *)
(* Stated for a process where msgspec and json_repair are installed and a  *)
(* text that holds a JSON object.                                          *)
(***************************************************************************)
C18_RepairTiersInOrder ==
    (/\ json_result # <<>> /\ repair
     /\ HAS_MSGSPEC /\ HAS_JSON_REPAIR
     /\ bp_content.kind # "no_object")
    => LET r == json_result[1]
           k == Len(r.tried)
       IN  /\ k \in 1..3
           /\ r.tried = SubSeq(Tiers, 1, k)
           /\ \A i \in 1..(k - 1) : ~Accepts(Tiers[i], bp_content)
           /\ r.ok <=> Accepts(Tiers[k], bp_content)
           /\ ~r.ok => k = 3

(***************************************************************************)
(* C19: within one parse call, every component that omits its id gets a    *)
(* synthetic id, and the synthetic ids assigned in that call are pairwise  *)
(* distinct: the id counter increases with every synthetic id handed out.  *)
(***************************************************************************)
C19_SyntheticIdsDistinct ==
    ParseReturned =>
        /\ NoDuplicates(bp_result[1].syn)
        /\ _id_counter = Len(bp_result[1].syn)

(***************************************************************************)
(* C20: every component given with a non-empty explicit id (the id field   *)
(* of the explicit form, or the part after the first '#' of a compact      *)
(* "type#id" key) is compiled to a component with exactly that id, at      *)
(* every nesting depth.                                                    *)
(***************************************************************************)
C20_ExplicitIdsPreserved ==
    ParseReturned => KeepsIds(GivenComponents, CompiledComponents)

\* a package is returned for a compact key with a second '#' and a compact
\* "col#c2" whose child "c1" has a child "b1"
C20_Witness ==
    /\ ParseReturned
    /\ \E i \in 1..Len(CompiledComponents) :
          Get(CompiledComponents[i], "id") = JStr("a#b")
    /\ \E i \in 1..Len(CompiledComponents) :
          LET c == CompiledComponents[i]
          IN  /\ Get(c, "id") = JStr("c2")
              /\ HasKey(c, "children")
              /\ Get(Get(c, "children").items[1], "id") = JStr("c1")
              /\ HasKey(Get(c, "children").items[1], "children")
              /\ Get(Get(Get(c, "children").items[1], "children").items[1], "id")
                    = JStr("b1")

(***************************************************************************)
(* Vocabulary of the claims about repeated and failing parses.             *)
(***************************************************************************)
\* what a caller of parse can observe of a call
Outcome(r) == [ok |-> r.ok, package |-> r.package, exc |-> r.exc, error |-> r.error,
               n |-> r.n, syn |-> r.syn]

\* the Blueprint object the text denotes, when extract_json returns one
JsonReturned == json_extract_json(bp_content, TRUE).ok
\* the message for the first missing item, "" if none is missing
FirstMissing(bp) ==
    CASE ~HasKey(bp, "app") -> "Invalid Blueprint: missing 'app' section"
      [] ~Truthy(GetOr(Get(bp, "app"), "id", JNull)) -> "app.id is required"
      [] ~Truthy(GetOr(Get(bp, "app"), "name", JNull)) -> "app.name is required"
      [] OTHER -> ""

\* the compiled components at every depth
RECURSIVE Flat(_)
Flat(cs) ==
    IF cs = <<>> THEN <<>>
    ELSE <<Head(cs)>> \o Flat(GetOr(Head(cs), "children", EmptyList).items) \o Flat(Tail(cs))

\* the props a DSL component is given with
GivenProps(c) ==
    CASE IsDict(c) /\ HasKey(c, "type") -> GetOr(c, "props", EmptyDict)
      [] IsDict(c) /\ c.keys # <<>> /\ IsDict(c.items[1]) -> c.items[1]
      [] OTHER -> EmptyDict
\* the given top-level components that compile, in order: the i-th of them is
\* compiled to the i-th compiled component
TopKept == SelectSeq(GivenComponents, Compiles)
GivenTemplates == GetOr(bp_content.value, "templates", EmptyDict)

(***************************************************************************)
(* C21: compiling the same Blueprint text again, with a fresh parser or    *)
(* with a parser that has parsed before, gives the same result with the    *)
(* same component ids: every parse starts with the id counter at 0.        *)
(***************************************************************************)
C21_SameTextSameIds ==
    \A i \in 1..Len(bp_result) :
        Outcome(bp_result[i]) = Outcome(parse_blueprint(bp_content))

\* a parser that has compiled another text, with two synthetic ids, has
\* compiled the text twice, handing out synthetic ids
C21_Witness ==
    /\ Len(bp_result) = 2
    /\ earlier # <<>> /\ earlier[1].kind = "valid"
    /\ bp_result[2].ok
    /\ bp_result[2].syn # <<>>

(***************************************************************************)
(* C22: parse fails fast with a ValidationError naming the missing item:   *)
(* a Blueprint without an app section, without a non-empty app.id or       *)
(* without a non-empty app.name is rejected with the message for the first *)
(* missing item in that order, before any expansion runs, and no package   *)
(* is returned.                                                            *)
(***************************************************************************)
C22_FailFastNamesMissing ==
    (/\ bp_result # <<>>
     /\ JsonReturned
     /\ FirstMissing(bp_content.value) # "")
    => /\ ~bp_result[1].ok
       /\ bp_result[1].exc = "ValidationError"
       /\ bp_result[1].error = FirstMissing(bp_content.value)
       /\ bp_result[1].syn = <<>>

(***************************************************************************)
(* C23: for every input text, parse either returns a package whose ui_spec *)
(* has a title and a components list, or raises ValidationError; no other  *)
(* exception type escapes.                                                 *)
(***************************************************************************)
C23_OnlyValidationErrorEscapes ==
    \A i \in 1..Len(bp_result) :
        \/ /\ bp_result[i].ok
           /\ HasKey(Get(bp_result[i].package, "ui_spec"), "title")
           /\ IsList(Get(Get(bp_result[i].package, "ui_spec"), "components"))
        \/ /\ ~bp_result[i].ok
           /\ bp_result[i].exc = "ValidationError"

(***************************************************************************)
(* C24: a component that references a template is compiled with the named  *)
(* template's fields in its props, the component's own fields overriding   *)
(* the template's fields of the same key.                                  *)
(***************************************************************************)
C24_TemplateMerged ==
    (ParseReturned /\ Len(TopKept) = Len(CompiledComponents)) =>
        \A i \in 1..Len(TopKept) :
            LET own == GivenProps(TopKept[i])
                name == GetOr(own, "$template", JNull)
                props == Get(CompiledComponents[i], "props")
            IN  (IsStr(name) /\ HasKey(GivenTemplates, name.val)) =>
                    \A j \in 1..Len(Get(GivenTemplates, name.val).keys) :
                        LET k == Get(GivenTemplates, name.val).keys[j]
                        IN  /\ HasKey(props, k)
                            /\ Get(props, k) = IF HasKey(own, k) THEN Get(own, k)
                                               ELSE Get(GivenTemplates, name.val).items[j]

(***************************************************************************)
(* C25: for every component, in compact and in explicit form, each key     *)
(* beginning with '@' ends up in the compiled component's event map under  *)
(* its name without the marker, and no key beginning with '@' remains in   *)
(* the compiled props.                                                     *)
(***************************************************************************)
C25_EventsExtracted ==
    (ParseReturned /\ Len(TopKept) = Len(CompiledComponents)) =>
        /\ \A i \in 1..Len(Flat(CompiledComponents)) :
              \A j \in 1..Len(Get(Flat(CompiledComponents)[i], "props").keys) :
                  ~startswith_at(Get(Flat(CompiledComponents)[i], "props").keys[j])
        /\ \A i \in 1..Len(TopKept) :
              \A j \in 1..Len(GivenProps(TopKept[i]).keys) :
                  LET k == GivenProps(TopKept[i]).keys[j]
                      events == GetOr(CompiledComponents[i], "on_event", EmptyDict)
                  IN  startswith_at(k) =>
                          /\ HasKey(events, strip_at(k))
                          /\ Get(events, strip_at(k)) = GivenProps(TopKept[i]).items[j]

(***************************************************************************)
(* C26: every compiled component has a children list; a component without  *)
(* children compiles to children == [], not to a missing or null field.    *)
(***************************************************************************)
C26_ChildrenAlwaysList ==
    ParseReturned =>
        \A i \in 1..Len(Flat(CompiledComponents)) :
            /\ HasKey(Flat(CompiledComponents)[i], "children")
            /\ IsList(Get(Flat(CompiledComponents)[i], "children"))

(***************************************************************************)
(* C27: compilation is idempotent on compiled trees: feeding the compiled  *)
(* components back through _expand_components yields the same components,  *)
(* with the same type, id, props, children and events at every node.       *)
(***************************************************************************)
C27_RecompileIdentical ==
    recompiled # <<>> => recompiled[1] = JList(CompiledComponents)

\* a compiled tree with a container made from a row, with a synthetic id and
\* a child, has been fed back
C27_Witness ==
    /\ recompiled # <<>>
    /\ bp_result[1].syn # <<>>
    /\ \E i \in 1..Len(CompiledComponents) :
          /\ HasKey(CompiledComponents[i], "children")
          /\ Get(CompiledComponents[i], "id") = JStr("row-0")
          /\ Get(Get(CompiledComponents[i], "props"), "layout") = JStr("horizontal")

(***************************************************************************)
(* The rule-based branch and the re-chunking of StreamUI                   *)
(***************************************************************************)
\* the generator of UIGeneratorAgent has entered its rule-based branch
RulePathTaken ==
    /\ ~stub
    /\ \/ g_pc \in {"rule_json", "rule_spec"}
       \/ g_pc = "done" /\ (~use_llm \/ llm_failure # "none")

\* the title the keywords of a request call for, the first match winning
ExpectedTitle(req) ==
    IF "calculator" \in req THEN "Calculator"
    ELSE IF "todo" \in req \/ "task" \in req THEN "Todo App"
    ELSE IF "counter" \in req THEN "Counter"
    ELSE "Generated App"

\* the number of items the rule-based branch has yielded so far
RuleYields == IF g_pc = "rule_json" THEN 1 ELSE 2

\* the TOKEN messages of the request, in order
Tokens == SelectSeq(out, LAMBDA t : t.type = "TOKEN")

\* C28: the rule-based branch of UIGeneratorAgent never raises; it yields one
\* JSON text token and then the UISpec, a specification with a non-empty title
\* and a non-empty components list, which is the calculator, the todo app, the
\* counter or the placeholder by the first keyword of the request that matches
\* in that order, and is a function of the request alone
C28_RuleBasedCannotFail ==
    /\ ~stub => g_pc # "raised"
    /\ RulePathTaken =>
          LET n == Len(yielded)
              k == RuleYields
              title == ExpectedTitle(request)
          IN  /\ n >= k
              /\ ~use_llm => n = k
              /\ \A i \in 1..(n - k) : yielded[i].kind = "str"
              /\ yielded[n - k + 1] = StrItem(<<"{", title, "}">>)
              /\ k = 2 =>
                    /\ yielded[n].kind = "spec"
                    /\ Get(yielded[n].spec[1], "title") = JStr(title)
                    /\ Get(yielded[n].spec[1], "title").val # ""
                    /\ Get(yielded[n].spec[1], "components").items # <<>>
                    /\ yielded[n].spec[1] = RuleSpecOf(title)

\* the upstream raised after a token; the request names the calculator and the
\* counter, and the rule-based branch has yielded its token and its UISpec
C28_Witness ==
    /\ RulePathTaken /\ g_pc = "done" /\ llm_failure = "stream"
    /\ request = {"calculator", "counter"}
    /\ Len(yielded) = 3
    /\ Get(yielded[3].spec[1], "title") = JStr("Calculator")

\* C29: of the TOKEN messages StreamUI sends for a request served by
\* UIGeneratorAgent, every one but the last holds exactly BATCH_SIZE characters
C29_FixedSizeChunks ==
    (rpc = "StreamUI" /\ ~stub) =>
        \A i \in 1..(Len(Tokens) - 1) : TextLen(Tokens[i].content) = BATCH_SIZE

\* C30: for a generation by the LLM that did not fail, the TOKEN text the
\* caller has received starts with the opening brace
C30_StartsAtBrace ==
    (rpc = "StreamUI" /\ ~stub /\ use_llm /\ llm_failure = "none" /\ Tokens # <<>>) =>
        Head(Flatten([i \in 1..Len(Tokens) |-> Tokens[i].content])) = "{"

(***************************************************************************)
(* core/validate.py validate_json_depth and core/json.py validate_depth    *)
(***************************************************************************)
MaxNest == 3

\* the request model, the cache and the parser are not in use
CoreIdle ==
    /\ StreamIdle
    /\ LRUCache_init(1, <<>>, [t \in Threads \cup {Caller} |-> 0])
    /\ ParserIdle

\* mutant: the depth limit itself is refused
M_validate_depth_at_limit(obj, max_depth, _depth) ==
    IF _depth >= max_depth THEN "Failure" ELSE "Success"

\* core/json.py validate_depth: "Failure" or "Success"
RECURSIVE validate_depth(_, _, _)
validate_depth(obj, max_depth, _depth) ==
    IF _depth > max_depth THEN "Failure"
    ELSE IF /\ obj.kind \in {"dict", "list"}
            /\ \E i \in 1..Len(obj.items) :
                  validate_depth(obj.items[i], max_depth, _depth + 1) = "Failure"
    THEN "Failure"
    ELSE "Success"

\* a chain of containers, outermost first, around inner; every dict also
\* holds a scalar beside the nested value
RECURSIVE Nested(_, _)
Nested(kinds, inner) ==
    IF kinds = <<>> THEN inner
    ELSE IF Head(kinds) = "dict"
    THEN JDict(<<"level", "nested">>, <<JLit("1"), Nested(Tail(kinds), inner)>>)
    ELSE JList(<<Nested(Tail(kinds), inner)>>)

RECURSIVE Dicts(_)
Dicts(n) == IF n = 0 THEN <<>> ELSE <<"dict">> \o Dicts(n - 1)

KindSeqs == UNION {[1..n -> {"dict", "list"}] : n \in 0..MaxNest}
Inners == {JLit("1"), JDict(<<>>, <<>>), JList(<<>>)}

\* objects checked against small limits, and objects around the default limit
DepthObjects == {Nested(k, i) : k \in KindSeqs, i \in Inners}
DeepObjects ==
    {Nested(Dicts(n), i) : n \in (MAX_JSON_DEPTH - 1)..(MAX_JSON_DEPTH + 1), i \in Inners}

DepthInit ==
    /\ CoreIdle /\ OnlyDepth
    /\ \/ depth_obj \in DepthObjects /\ depth_max \in 0..MaxNest
       \/ depth_obj \in DeepObjects /\ depth_max = MAX_JSON_DEPTH
    /\ depth_raised = <<>>
    /\ depth_result = <<>>

\* core/validate.py: validate_json_depth(obj, max_depth)
validate_json_depth_call ==
    /\ depth_raised = <<>>
    /\ depth_raised' = <<~validate_json_depth(depth_obj, depth_max, 0)>>
    /\ UNCHANGED <<depth_obj, depth_max, depth_result, not_depthVars>>

\* core/json.py: validate_depth(obj, max_depth)
validate_depth_call ==
    /\ depth_result = <<>>
    /\ depth_result' = <<validate_depth(depth_obj, depth_max, 0)>>
    /\ UNCHANGED <<depth_obj, depth_max, depth_raised, not_depthVars>>

DepthNext == validate_json_depth_call \/ validate_depth_call

SpecDepth == DepthInit /\ [][DepthNext]_vars

\* the depths below the root at which the values of obj sit, the root at 0
RECURSIVE ValueDepths(_, _)
ValueDepths(obj, d) ==
    {d} \cup (IF obj.kind \in {"dict", "list"}
              THEN UNION {ValueDepths(obj.items[i], d + 1) : i \in 1..Len(obj.items)}
              ELSE {})

\* C31: both depth validators refuse an object with a value at nesting depth
\* max_depth + 1 (the root at depth 0, every enclosing dict or list adding 1)
\* and accept an object all of whose values sit at depth max_depth or less
C31_DepthBoundary ==
    LET depths == ValueDepths(depth_obj, 0)
    IN  /\ depth_raised # <<>> =>
              /\ (depth_max + 1) \in depths => depth_raised[1]
              /\ (\A d \in depths : d <= depth_max) => ~depth_raised[1]
        /\ depth_result # <<>> =>
              /\ (depth_max + 1) \in depths => depth_result[1] = "Failure"
              /\ (\A d \in depths : d <= depth_max) => depth_result[1] = "Success"

\* with the default limit of 20, an object whose deepest value sits at depth 21
\* has been refused by both validators
C31_Witness ==
    /\ depth_max = MAX_JSON_DEPTH
    /\ (MAX_JSON_DEPTH + 1) \in ValueDepths(depth_obj, 0)
    /\ (MAX_JSON_DEPTH + 2) \notin ValueDepths(depth_obj, 0)
    /\ depth_raised = <<TRUE>>
    /\ depth_result = <<"Failure">>

\* with the default limit of 20, an object whose deepest value sits at depth 20
\* has been accepted by both validators
C31_WitnessAccepted ==
    /\ depth_max = MAX_JSON_DEPTH
    /\ MAX_JSON_DEPTH \in ValueDepths(depth_obj, 0)
    /\ (MAX_JSON_DEPTH + 1) \notin ValueDepths(depth_obj, 0)
    /\ depth_raised = <<FALSE>>
    /\ depth_result = <<"Success">>

(***************************************************************************)
(* core/stream.py: TokenBatcher, batch_tokens and batch_tokens_sync.  A    *)
(* token and a batch are sequences of characters.                          *)
(***************************************************************************)
MaxTokens == 3
MaxTokenLen == 2
MaxBatchSize == 3

\* a return value: None, or a str
None == [none |-> TRUE, text |-> <<>>]
Str(text) == [none |-> FALSE, text |-> text]

\* bool(value) of a return value
TruthyStr(v) == ~v.none /\ v.text # <<>>

BatchTokens == UNION {[1..n -> {"a", "b"}] : n \in 0..MaxTokenLen}
TokenStreams == UNION {[1..n -> BatchTokens] : n \in 0..MaxTokens}

\* mutant: a batch is returned only once the buffer is longer than batch_size
M_add_beyond(size, buffer, token) ==
    IF Len(buffer \o token) > size
    THEN [ret |-> Str(buffer \o token), buffer |-> <<>>]
    ELSE [ret |-> None, buffer |-> buffer \o token]

\* TokenBatcher.add: the return value and the buffer it leaves
add(size, buffer, token) ==
    IF Len(buffer \o token) >= size
    THEN [ret |-> Str(buffer \o token), buffer |-> <<>>]
    ELSE [ret |-> None, buffer |-> buffer \o token]

\* TokenBatcher.flush: the return value and the buffer it leaves
flush(buffer) ==
    IF buffer # <<>>
    THEN [ret |-> Str(buffer), buffer |-> <<>>]
    ELSE [ret |-> None, buffer |-> buffer]

\* a call of the batcher, as remembered
BatcherCall(op, token, r) ==
    [op |-> op, token |-> token, pre |-> _buffer, ret |-> r.ret, post |-> r.buffer]

\* the call r of the batcher is made
Batched(op, token, r) ==
    /\ _buffer' = r.buffer
    /\ bt_calls' = Append(bt_calls, BatcherCall(op, token, r))

BatcherInit ==
    /\ CoreIdle /\ OnlyBatcher
    /\ batch_size \in 0..MaxBatchSize
    /\ _buffer = <<>>
    /\ bt_calls = <<>>
    /\ bt_batches = <<>>
    /\ \/ bt_mode = "direct" /\ bt_stream = <<>> /\ bt_pc = "done"
       \/ bt_mode = "batch_tokens" /\ bt_stream \in TokenStreams /\ bt_pc = "loop"

\* a caller of its own calls batcher.add(token)
TokenBatcher_add ==
    /\ bt_mode = "direct" /\ Len(bt_calls) < MaxTokens
    /\ \E token \in BatchTokens : Batched("add", token, add(batch_size, _buffer, token))
    /\ UNCHANGED <<batch_size, bt_mode, bt_stream, bt_pc, bt_batches, not_batcherVars>>

\* a caller of its own calls batcher.flush()
TokenBatcher_flush ==
    /\ bt_mode = "direct" /\ Len(bt_calls) < MaxTokens
    /\ Batched("flush", <<>>, flush(_buffer))
    /\ UNCHANGED <<batch_size, bt_mode, bt_stream, bt_pc, bt_batches, not_batcherVars>>

\* batch_tokens / batch_tokens_sync: one pass of the loop over the stream
batch_tokens_token ==
    /\ bt_mode = "batch_tokens" /\ bt_pc = "loop" /\ bt_stream # <<>>
    /\ Batched("add", Head(bt_stream), add(batch_size, _buffer, Head(bt_stream)))
    /\ bt_stream' = Tail(bt_stream)
    /\ bt_batches' = IF TruthyStr(add(batch_size, _buffer, Head(bt_stream)).ret)
                     THEN Append(bt_batches, add(batch_size, _buffer, Head(bt_stream)).ret.text)
                     ELSE bt_batches
    /\ UNCHANGED <<batch_size, bt_mode, bt_pc, not_batcherVars>>

\* batch_tokens / batch_tokens_sync: the stream is exhausted, flush
batch_tokens_flush ==
    /\ bt_mode = "batch_tokens" /\ bt_pc = "loop" /\ bt_stream = <<>>
    /\ Batched("flush", <<>>, flush(_buffer))
    /\ bt_batches' = IF TruthyStr(flush(_buffer).ret)
                     THEN Append(bt_batches, flush(_buffer).ret.text)
                     ELSE bt_batches
    /\ bt_pc' = "done"
    /\ UNCHANGED <<batch_size, bt_mode, bt_stream, not_batcherVars>>

BatcherNext ==
    TokenBatcher_add \/ TokenBatcher_flush \/ batch_tokens_token \/ batch_tokens_flush

SpecBatcher == BatcherInit /\ [][BatcherNext]_vars

\* the tokens handed to add, and the texts add and flush returned, concatenated
AddedText ==
    Flatten([i \in 1..Len(bt_calls) |-> bt_calls[i].token])
ReturnedText ==
    Flatten([i \in 1..Len(bt_calls) |-> bt_calls[i].ret.text])

\* C32: add appends the token and returns the whole buffer, emptying it, exactly
\* when the buffered length has reached batch_size, else None; flush returns a
\* non-empty remainder once and None after it; the returned batches followed by
\* the final flush spell the tokens; batch_tokens yields no empty batch
C32_BatcherPreservesText ==
    /\ \A i \in 1..Len(bt_calls) :
          LET c == bt_calls[i]
          IN  /\ c.op = "add" =>
                    IF Len(c.pre) + Len(c.token) >= batch_size
                    THEN c.ret = Str(c.pre \o c.token) /\ c.post = <<>>
                    ELSE c.ret = None /\ c.post = c.pre \o c.token
              /\ c.op = "flush" =>
                    /\ c.post = <<>>
                    /\ IF c.pre # <<>> THEN c.ret = Str(c.pre) ELSE c.ret = None
                    /\ (i > 1 /\ bt_calls[i - 1].op = "flush") => c.ret = None
    /\ ReturnedText \o _buffer = AddedText
    /\ (bt_calls # <<>> /\ bt_calls[Len(bt_calls)].op = "flush") => ReturnedText = AddedText
    /\ \A i \in 1..Len(bt_batches) : bt_batches[i] # <<>>
    /\ (bt_mode = "batch_tokens" /\ bt_pc = "done") => Flatten(bt_batches) = AddedText

\* batch_tokens has batched a stream of three tokens into a batch returned by
\* add at exactly batch_size characters and a remainder returned by flush
C32_Witness ==
    /\ bt_mode = "batch_tokens" /\ bt_pc = "done" /\ batch_size = 3
    /\ Len(bt_calls) = 4
    /\ \E i \in 1..3 : ~bt_calls[i].ret.none /\ Len(bt_calls[i].ret.text) = 3
    /\ ~bt_calls[4].ret.none
    /\ Len(bt_batches) = 2

\* a caller of its own has flushed twice in a row after adding text
C32_WitnessFlushTwice ==
    /\ bt_mode = "direct" /\ Len(bt_calls) >= 3
    /\ \E i \in 2..(Len(bt_calls) - 1) :
          /\ bt_calls[i].op = "flush" /\ ~bt_calls[i].ret.none
          /\ bt_calls[i + 1].op = "flush" /\ bt_calls[i + 1].ret.none

(***************************************************************************)
(* handlers/ui.py: UIHandler.stream over the UIGenerationRequest validator *)
(* of core/validate.py and an injected ui_generator                        *)
(***************************************************************************)
MaxMsgLen == 3
MAX_MESSAGE_LENGTH == 10000

\* a message: its characters, and its length (a long run of one character is
\* kept as one)
Msg(text) == [text |-> text, len |-> Len(text)]
LongMsg == [text |-> <<"x">>, len |-> MAX_MESSAGE_LENGTH + 1]
Messages == {Msg(t) : t \in UNION {[1..n -> {" ", "x"}] : n \in 0..MaxMsgLen}} \cup {LongMsg}
Contexts == {<<>>, <<"k">>}

\* v.strip() is empty
Blank(text) == \A i \in 1..Len(text) : text[i] = " "

\* UIGenerationRequest(message=...): TRUE iff no exception is raised
UIGenerationRequest(message) ==
    /\ message.len >= 1
    /\ message.len <= MAX_MESSAGE_LENGTH
    /\ ~Blank(message.text)

HandlerInit ==
    /\ CoreIdle /\ OnlyHandler
    /\ uh_message \in Messages
    /\ uh_context \in Contexts
    /\ uh_pc = "created"
    /\ uh_out = <<>>
    /\ uh_error = <<>>

\* first next(): validate the request, then yield GENERATION_START; the except
\* branches record metrics and re-raise
UIHandler_stream_start ==
    /\ uh_pc = "created"
    /\ IF UIGenerationRequest(uh_message)
       THEN /\ uh_out' = Append(uh_out, UIToken("GENERATION_START", <<>>))
            /\ uh_pc' = "started"
            /\ UNCHANGED uh_error
       ELSE /\ uh_pc' = "raised"
            /\ uh_error' = <<"ValidationError">>
            /\ UNCHANGED uh_out
    /\ UNCHANGED <<uh_message, uh_context, not_handlerVars>>

\* self.ui_generator.generate(...) returns a package: yield it as one TOKEN
UIHandler_stream_token ==
    /\ uh_pc = "started"
    /\ uh_out' = Append(uh_out, UIToken("TOKEN", <<"package">>))
    /\ uh_pc' = "token"
    /\ UNCHANGED <<uh_message, uh_context, uh_error, not_handlerVars>>

\* self.ui_generator.generate(...) raises: except Exception records it and
\* re-raises
UIHandler_stream_generate_raises ==
    /\ uh_pc = "started"
    /\ uh_pc' = "raised"
    /\ uh_error' = <<"Exception">>
    /\ UNCHANGED <<uh_message, uh_context, uh_out, not_handlerVars>>

\* yield COMPLETE
UIHandler_stream_complete ==
    /\ uh_pc = "token"
    /\ uh_out' = Append(uh_out, UIToken("COMPLETE", <<>>))
    /\ uh_pc' = "complete"
    /\ UNCHANGED <<uh_message, uh_context, uh_error, not_handlerVars>>

\* the metrics are recorded and the generator returns
UIHandler_stream_return ==
    /\ uh_pc = "complete"
    /\ uh_pc' = "done"
    /\ UNCHANGED <<uh_message, uh_context, uh_out, uh_error, not_handlerVars>>

HandlerNext ==
    \/ UIHandler_stream_start
    \/ UIHandler_stream_token
    \/ UIHandler_stream_generate_raises
    \/ UIHandler_stream_complete
    \/ UIHandler_stream_return

SpecHandler == HandlerInit /\ [][HandlerNext]_vars

\* C33: when UIHandler.stream has ended, a successful stream starts with
\* GENERATION_START and ends with COMPLETE, and a failed one (an invalid
\* request, an exception of the generator) ends with an ERROR token
C33_HandlerStreamTerminal ==
    /\ uh_pc = "done" =>
          /\ uh_out # <<>>
          /\ uh_out[1].type = "GENERATION_START"
          /\ uh_out[Len(uh_out)].type = "COMPLETE"
    /\ uh_pc = "raised" =>
          /\ uh_out # <<>>
          /\ uh_out[Len(uh_out)].type = "ERROR"

(***************************************************************************)
(* clients/backend.py: BackendClient.discover_services and health_check    *)
(* over pybreaker.CircuitBreaker(fail_max=5, reset_timeout=30)             *)
(***************************************************************************)
MaxBackendCalls == 8
MaxClock == 60
FAIL_MAX == 5
RESET_TIMEOUT == 30

\* what the backend does with GET /services
ServicesReplies ==
    {"transport_error", "status_500", "not_json", "body_list", "services_null",
     "malformed_entry", "no_services", "two_services"}
\* what the backend does with GET /health
HealthReplies == {"transport_error", "status_200", "status_500"}

\* the breaker after a call, the state changes its listener was told of, whether
\* the backend was contacted, and how the call ended
Breaker(state, counter, opened_at, changes, contacted, outcome) ==
    [state |-> state, counter |-> counter, opened_at |-> opened_at,
     changes |-> changes, contacted |-> contacted, outcome |-> outcome]

\* mutant: the failure threshold never opens the breaker
M_ClosedCall_never_opens(counter, opened_at, utcnow, reply) ==
    IF reply = "transport_error"
    THEN Breaker("closed", counter + 1, opened_at, <<>>, TRUE, "HTTPError")
    ELSE Breaker("closed", 0, opened_at, <<>>, TRUE, "response")

\* CircuitBreaker.call in the closed state
ClosedCall(counter, opened_at, utcnow, reply) ==
    IF reply = "transport_error"
    THEN IF counter + 1 >= FAIL_MAX
         THEN Breaker("open", counter + 1, utcnow, <<"open">>, TRUE, "CircuitBreakerError")
         ELSE Breaker("closed", counter + 1, opened_at, <<>>, TRUE, "HTTPError")
    ELSE Breaker("closed", 0, opened_at, <<>>, TRUE, "response")

\* CircuitBreaker.call in the half-open state: the trial call
HalfOpenCall(counter, opened_at, utcnow, reply) ==
    IF reply = "transport_error"
    THEN Breaker("open", counter + 1, utcnow, <<"half-open", "open">>, TRUE,
                 "CircuitBreakerError")
    ELSE Breaker("closed", 0, opened_at, <<"half-open", "closed">>, TRUE, "response")

\* CircuitBreaker.call in the open state
OpenCall(counter, opened_at, utcnow, reply) ==
    IF utcnow < opened_at + RESET_TIMEOUT
    THEN Breaker("open", counter, opened_at, <<>>, FALSE, "CircuitBreakerError")
    ELSE HalfOpenCall(counter, opened_at, utcnow, reply)

\* self._breaker.call(_make_request)
breaker_call(state, counter, opened_at, utcnow, reply) ==
    CASE state = "closed" -> ClosedCall(counter, opened_at, utcnow, reply)
      [] state = "open" -> OpenCall(counter, opened_at, utcnow, reply)
      [] OTHER -> HalfOpenCall(counter, opened_at, utcnow, reply)

\* what the body of discover_services' try block does: the exception it
\* raises ("" if none) and the list it returns
TryBody(outcome, reply) ==
    CASE outcome = "CircuitBreakerError" -> [exc |-> "CircuitBreakerError", services |-> <<>>]
      [] outcome = "HTTPError" -> [exc |-> "HTTPError", services |-> <<>>]
      [] reply = "status_500" -> [exc |-> "HTTPStatusError", services |-> <<>>]
      [] reply = "not_json" -> [exc |-> "JSONDecodeError", services |-> <<>>]
      [] reply = "body_list" -> [exc |-> "", services |-> <<>>]
      [] reply = "services_null" -> [exc |-> "TypeError", services |-> <<>>]
      [] reply = "malformed_entry" -> [exc |-> "KeyError", services |-> <<>>]
      [] reply = "no_services" -> [exc |-> "", services |-> <<>>]
      [] OTHER -> [exc |-> "", services |-> <<"storage", "auth">>]

\* mutant: only the breaker's and the HTTP errors are caught
M_Caught_http_only(exc) ==
    exc \in {"CircuitBreakerError", "HTTPError", "HTTPStatusError"}

\* the except branches: CircuitBreakerError, httpx.HTTPError, Exception
Caught(exc) ==
    \/ exc = "CircuitBreakerError"
    \/ exc \in {"HTTPError", "HTTPStatusError"}
    \/ exc \in {"JSONDecodeError", "TypeError", "KeyError"}

\* discover_services from the breaker's outcome on
discover_result(outcome, reply) ==
    IF TryBody(outcome, reply).exc = ""
    THEN [raised |-> FALSE, services |-> TryBody(outcome, reply).services]
    ELSE [raised |-> ~Caught(TryBody(outcome, reply).exc), services |-> <<>>]

BackendInit ==
    /\ CoreIdle /\ OnlyBackend
    /\ bk_state = "closed"
    /\ bk_counter = 0
    /\ bk_opened_at = 0
    /\ bk_now = 0
    /\ bk_last = <<>>
    /\ bk_ncalls = 0

\* the call is remembered with the breaker and the clock it began with
BackendCall(op, reply, b, r) ==
    [op |-> op, reply |-> reply, pre_state |-> bk_state, pre_counter |-> bk_counter,
     pre_opened_at |-> bk_opened_at, at |-> bk_now, changes |-> b.changes,
     contacted |-> b.contacted, raised |-> r.raised, services |-> r.services]

DiscoverDone(reply, b) ==
    /\ bk_state' = b.state
    /\ bk_counter' = b.counter
    /\ bk_opened_at' = b.opened_at
    /\ bk_last' = <<BackendCall("discover_services", reply, b,
                                discover_result(b.outcome, reply))>>

\* BackendClient.discover_services()
BackendClient_discover_services ==
    /\ bk_ncalls < MaxBackendCalls
    /\ bk_ncalls' = bk_ncalls + 1
    /\ \E reply \in ServicesReplies :
          DiscoverDone(reply, breaker_call(bk_state, bk_counter, bk_opened_at, bk_now, reply))
    /\ UNCHANGED <<bk_now, not_backendVars>>

\* BackendClient.health_check(): the breaker is not consulted
BackendClient_health_check ==
    /\ bk_ncalls < MaxBackendCalls
    /\ bk_ncalls' = bk_ncalls + 1
    /\ \E reply \in HealthReplies :
          bk_last' = <<BackendCall("health_check", reply,
                                   Breaker(bk_state, bk_counter, bk_opened_at, <<>>,
                                           TRUE, "response"),
                                   [raised |-> FALSE,
                                    services |-> IF reply = "status_200"
                                                 THEN <<"healthy">> ELSE <<>>])>>
    /\ UNCHANGED <<bk_state, bk_counter, bk_opened_at, bk_now, not_backendVars>>

\* time passes: half the reset timeout
BackendTick ==
    /\ bk_now + RESET_TIMEOUT \div 2 <= MaxClock
    /\ bk_now' = bk_now + RESET_TIMEOUT \div 2
    /\ UNCHANGED <<bk_state, bk_counter, bk_opened_at, bk_last, bk_ncalls, not_backendVars>>

BackendNext ==
    BackendClient_discover_services \/ BackendClient_health_check \/ BackendTick

SpecBackend == BackendInit /\ [][BackendNext]_vars

\* the replies that are a failure of service discovery
FailedReplies == ServicesReplies \ {"no_services", "two_services"}

\* C34: discover_services never raises; on a transport error, a non-success
\* status, a body that is no object, a malformed entry or an open breaker it
\* returns the empty list
C34_DiscoverNeverRaises ==
    (bk_last # <<>> /\ bk_last[1].op = "discover_services") =>
        /\ ~bk_last[1].raised
        /\ (bk_last[1].reply \in FailedReplies \/ ~bk_last[1].contacted) =>
              bk_last[1].services = <<>>

\* discover_services has returned [] for a malformed entry with the breaker
\* closed, and the breaker is still closed
C34_Witness ==
    /\ bk_last # <<>> /\ bk_last[1].op = "discover_services"
    /\ bk_last[1].reply = "malformed_entry" /\ bk_last[1].contacted
    /\ ~bk_last[1].raised /\ bk_last[1].services = <<>>
    /\ bk_state = "closed"

\* discover_services has returned [] without contacting the backend, the
\* breaker being open
C34_WitnessOpen ==
    /\ bk_last # <<>> /\ bk_last[1].op = "discover_services"
    /\ bk_last[1].pre_state = "open" /\ ~bk_last[1].contacted
    /\ ~bk_last[1].raised /\ bk_last[1].services = <<>>

C37_WitnessHealth ==
    /\ bk_last # <<>> /\ bk_last[1].op = "health_check"
    /\ bk_last[1].pre_state = "open" /\ bk_last[1].contacted
    /\ bk_last[1].services # <<>>

(***************************************************************************)
(* The statistics of LRUCache                                              *)
(***************************************************************************)
\* the single caller's completed calls of op
CallsOf(op) == {i \in 1..Len(history) : history[i].op = op}

\* the single caller's sets that found the cache full of other keys
EvictingSets ==
    {i \in CallsOf("set") :
        Len(history[i].pre) = max_size /\ ~Contains(history[i].pre, HashOf(i))}

\* C35: the statistics of LRUCache are consistent whenever no call is in
\* progress: stats.size is the number of stored entries
C35_StatsConsistent ==
    (\A t \in Threads \cup {Caller} : threads[t].pc = "idle") =>
        stats.size = Len(cache)

\* for the calls of a single caller, one after the other: stats.size is the
\* number of stored entries, hits + misses the number of get calls, hits the
\* number of those that returned a value, and evictions the number of sets
\* that removed an entry for capacity
C35_SingleCallerStats ==
    CallerIdle =>
        /\ stats.size = Len(cache)
        /\ stats.hits + stats.misses = Cardinality(CallsOf("get"))
        /\ stats.hits = Cardinality({i \in CallsOf("get") : history[i].ret # <<>>})
        /\ stats.evictions = Cardinality(EvictingSets)

\* the single caller has had a hit, a miss and an eviction
C35_SingleCallerSeen ==
    /\ CallerIdle /\ stats.hits >= 1 /\ stats.misses >= 1 /\ stats.evictions >= 1

(***************************************************************************)
(* agents/chat.py: ChatHistory.add                                         *)
(***************************************************************************)
MaxAdds == 5
MaxHistory == 3

ChatRoles == {"user", "assistant", "system"}
ChatMessage(role, n) == [role |-> role, n |-> n]

\* others[-n:]: the last n items, and every item for n = 0
LastItems(items, n) ==
    IF n = 0 \/ n >= Len(items) THEN items
    ELSE SubSeq(items, Len(items) - n + 1, Len(items))

\* ChatHistory.add: the messages it leaves
ChatHistory_added(messages, max_history, message) ==
    IF Len(Append(messages, message)) > max_history
    THEN SelectSeq(Append(messages, message), LAMBDA m : m.role = "system")
         \o LastItems(SelectSeq(Append(messages, message), LAMBDA m : m.role # "system"),
                      max_history)
    ELSE Append(messages, message)

ChatInit ==
    /\ CoreIdle /\ OnlyChat
    /\ ch_messages = <<>>
    /\ ch_max_history \in 0..MaxHistory
    /\ ch_added = 0

\* history.add(message)
ChatHistory_add ==
    /\ ch_added < MaxAdds
    /\ ch_added' = ch_added + 1
    /\ \E role \in ChatRoles :
          ch_messages' = ChatHistory_added(ch_messages, ch_max_history,
                                           ChatMessage(role, ch_added))
    /\ UNCHANGED <<ch_max_history, not_chatVars>>

ChatNext == ChatHistory_add

SpecChat == ChatInit /\ [][ChatNext]_vars

\* C36: after any sequence of add calls, with messages of any roles, a history
\* with a positive max_history holds at most max_history messages
C36_HistoryBound == ch_max_history >= 1 => Len(ch_messages) <= ch_max_history

(***************************************************************************)
(* agents/app_manager.py: AppManager.spawn_app, focus_app and close_app.   *)
(* An app id (a uuid4) is modelled by the number of the spawn; 0 is an id  *)
(* no app has.                                                             *)
(***************************************************************************)
MaxApps == 4
MaxAppCalls == 6

AppInstance(id, state, parent_id) == [id |-> id, state |-> state, parent_id |-> parent_id]

AppIds(a) == {a[i].id : i \in 1..Len(a)}
AppOf(a, id) == a[CHOOSE i \in 1..Len(a) : a[i].id = id]

\* the manager after a call: apps, focused_app_id, the return value, and the
\* ids registered and focused each time a call of close_app returned
Managed(a, f, ret, trace) == [apps |-> a, focused |-> f, ret |-> ret, trace |-> trace]
Snapshot(a, f) == [ids |-> AppIds(a), focused |-> f]

\* current.state = BACKGROUND for the focused app, if it is another app and ACTIVE
Unfocus(a, f, app_id) ==
    [i \in 1..Len(a) |->
        IF f # <<>> /\ f[1] # app_id /\ a[i].id = f[1] /\ a[i].state = "active"
        THEN [a[i] EXCEPT !.state = "background"]
        ELSE a[i]]

\* app.state = ACTIVE
Activate(a, app_id) ==
    [i \in 1..Len(a) |->
        IF a[i].id = app_id THEN [a[i] EXCEPT !.state = "active"] ELSE a[i]]

\* AppManager.focus_app
focus_app(a, f, app_id, trace) ==
    IF app_id \notin AppIds(a) THEN Managed(a, f, FALSE, trace)
    ELSE Managed(Activate(Unfocus(a, f, app_id), app_id), <<app_id>>, TRUE, trace)

\* mutant: closing an app closes no child
M_ChildrenOf_none(a, app_id) == <<>>

\* [a for a in self.apps.values() if a.parent_id == app_id]
ChildrenOf(a, app_id) ==
    SelectSeq(a, LAMBDA x : x.parent_id = <<app_id>>)

\* mutant: the focus is cleared and no other app is focused
M_Refocus_cleared(a, f, app_id, trace) ==
    IF f = <<app_id>> THEN Managed(a, <<>>, TRUE, trace)
    ELSE Managed(a, f, TRUE, trace)

\* close_app: "Update focus"
Refocus(a, f, app_id, trace) ==
    IF f = <<app_id>>
    THEN IF SelectSeq(a, LAMBDA x : x.state # "destroyed") # <<>>
         THEN focus_app(a, <<>>, SelectSeq(a, LAMBDA x : x.state # "destroyed")[1].id, trace)
         ELSE Managed(a, <<>>, TRUE, trace)
    ELSE Managed(a, f, TRUE, trace)

\* a call of close_app returns
CloseReturns(r) ==
    Managed(r.apps, r.focused, TRUE, Append(r.trace, Snapshot(r.apps, r.focused)))

\* close_app from "Mark as destroyed and remove" on
RemoveApp(r, app_id) ==
    CloseReturns(Refocus(SelectSeq(r.apps, LAMBDA x : x.id # app_id), r.focused,
                         app_id, r.trace))

RECURSIVE close_app(_, _, _, _)
RECURSIVE CloseChildren(_, _)

\* close_app: "for child in children: self.close_app(child.id)"
CloseChildren(r, children) ==
    IF children = <<>> THEN r
    ELSE CloseChildren(close_app(r.apps, r.focused, Head(children).id, r.trace),
                       Tail(children))

\* AppManager.close_app
close_app(a, f, app_id, trace) ==
    IF app_id \notin AppIds(a) THEN Managed(a, f, FALSE, trace)
    ELSE RemoveApp(CloseChildren(Managed(a, f, TRUE, trace), ChildrenOf(a, app_id)),
                   app_id)

AppsInit ==
    /\ CoreIdle /\ OnlyApps
    /\ apps = <<>>
    /\ focused_app_id = <<>>
    /\ am_spawned = 0
    /\ am_last = <<>>
    /\ am_ncalls = 0

\* the call is remembered with the manager it began with
ManagerCall(op, arg, r) ==
    /\ am_ncalls' = am_ncalls + 1
    /\ apps' = r.apps
    /\ focused_app_id' = r.focused
    /\ am_last' = <<[op |-> op, arg |-> arg, ret |-> r.ret, pre |-> apps,
                     pre_focused |-> focused_app_id, trace |-> r.trace]>>

\* the ids a caller may pass: those of the registered apps, and one of no app
KnownIds == AppIds(apps) \cup {0}

\* AppManager.spawn_app(request, ui_spec, parent_id)
AppManager_spawn_app ==
    /\ am_ncalls < MaxAppCalls /\ am_spawned < MaxApps
    /\ am_spawned' = am_spawned + 1
    /\ \E parent_id \in {<<>>} \cup {<<id>> : id \in KnownIds} :
          ManagerCall("spawn_app", am_spawned + 1,
                      Managed(Append(apps, AppInstance(am_spawned + 1, "active", parent_id)),
                              <<am_spawned + 1>>, TRUE, <<>>))
    /\ UNCHANGED not_appVars

\* AppManager.focus_app(app_id)
AppManager_focus_app ==
    /\ am_ncalls < MaxAppCalls
    /\ \E app_id \in KnownIds :
          ManagerCall("focus_app", app_id, focus_app(apps, focused_app_id, app_id, <<>>))
    /\ UNCHANGED <<am_spawned, not_appVars>>

\* AppManager.close_app(app_id)
AppManager_close_app ==
    /\ am_ncalls < MaxAppCalls
    /\ \E app_id \in KnownIds :
          ManagerCall("close_app", app_id, close_app(apps, focused_app_id, app_id, <<>>))
    /\ UNCHANGED <<am_spawned, not_appVars>>

AppsNext == AppManager_spawn_app \/ AppManager_focus_app \/ AppManager_close_app

SpecApps == AppsInit /\ [][AppsNext]_vars

\* the apps of a reachable from the ids S through parent_id links
RECURSIVE Subtree(_, _)
Subtree(a, S) ==
    IF {a[i].id : i \in {j \in 1..Len(a) : a[j].parent_id # <<>> /\ a[j].parent_id[1] \in S}}
          \subseteq S
    THEN S
    ELSE Subtree(a, S \cup {a[i].id : i \in {j \in 1..Len(a) :
                                a[j].parent_id # <<>> /\ a[j].parent_id[1] \in S}})

\* C38: after every call of spawn_app, focus_app and close_app, focused_app_id
\* is None exactly when no app is registered, and else the id of a registered
\* app whose state is ACTIVE; each time a call of close_app returns, also a
\* nested one closing a child, the focus is on no app that has been removed
C38_FocusInvariant ==
    /\ focused_app_id = <<>> <=> apps = <<>>
    /\ focused_app_id # <<>> =>
          /\ focused_app_id[1] \in AppIds(apps)
          /\ AppOf(apps, focused_app_id[1]).state = "active"
    /\ am_last # <<>> =>
          \A i \in 1..Len(am_last[1].trace) :
             am_last[1].trace[i].focused # <<>> =>
                am_last[1].trace[i].focused[1] \in am_last[1].trace[i].ids

\* a parent whose child had the focus has been closed while another app was
\* registered, and that app has the focus
C38_Witness ==
    /\ am_last # <<>> /\ am_last[1].op = "close_app" /\ am_last[1].ret
    /\ am_last[1].pre_focused # <<>>
    /\ am_last[1].pre_focused[1] \in Subtree(am_last[1].pre, {am_last[1].arg}) \ {am_last[1].arg}
    /\ apps # <<>>
    /\ focused_app_id # <<>>
    /\ Len(am_last[1].trace) >= 2

\* C39: when close_app(id) returns True, neither the app nor any app reachable
\* from it through parent_id links is registered any more and the apps
\* outside that subtree still are; close_app of an id no app has returns False
\* and changes nothing
C39_CloseCascades ==
    (am_last # <<>> /\ am_last[1].op = "close_app") =>
        IF am_last[1].arg \in AppIds(am_last[1].pre)
        THEN /\ am_last[1].ret
             /\ AppIds(apps) =
                   AppIds(am_last[1].pre) \ Subtree(am_last[1].pre, {am_last[1].arg})
        ELSE /\ ~am_last[1].ret
             /\ apps = am_last[1].pre
             /\ focused_app_id = am_last[1].pre_focused

\* an app with a child and a grandchild has been closed, and an app outside
\* its subtree is still registered
C39_Witness ==
    /\ am_last # <<>> /\ am_last[1].op = "close_app" /\ am_last[1].ret
    /\ Cardinality(Subtree(am_last[1].pre, {am_last[1].arg})) = 3
    /\ \E i \in 1..Len(am_last[1].pre) :
          /\ am_last[1].pre[i].parent_id # <<>>
          /\ am_last[1].pre[i].parent_id[1] # am_last[1].arg
          /\ am_last[1].pre[i].parent_id[1] \in Subtree(am_last[1].pre, {am_last[1].arg})
    /\ Len(apps) = 1

(***************************************************************************)
(* services/registry.py: ServiceRegistry.execute, with                     *)
(* BaseService.safe_execute of services/base.py.  A tool id is the         *)
(* sequence of its names and dots.                                         *)
(***************************************************************************)
MaxExecutes == 4

\* the rg_services main.py registers at startup: auth always, storage when the
\* kernel tools are there; the ai service is registered later or never
Registrations == {{"auth"}, {"storage", "auth"}}

\* the tools of the storage and auth rg_services dispatched by their execute
ServiceTools ==
    {<<"storage", ".", "data", ".", "save">>, <<"storage", ".", "data", ".", "load">>,
     <<"auth", ".", "session", ".", "validate">>}

\* the tool ids a caller may pass
ToolIds ==
    ServiceTools \cup
    {<<"storage", ".", "nosuch">>, <<"ai", ".", "chat">>, <<"storage">>, <<"save">>,
     <<>>, <<".", "save">>, <<"auth", ".">>}

\* the contexts main.py builds: None, or ServiceContext(app_id = ...)
ExecuteApps == {"app1", "app2"}
ServiceContexts == {<<>>} \cup {<<a>> : a \in ExecuteApps}

\* tool_id.split(".", 1)
split_once(tool_id) ==
    IF \E i \in 1..Len(tool_id) : tool_id[i] = "."
    THEN <<SubSeq(tool_id, 1, (CHOOSE i \in 1..Len(tool_id) :
                                  /\ tool_id[i] = "."
                                  /\ \A j \in 1..(i - 1) : tool_id[j] # ".") - 1),
           SubSeq(tool_id, (CHOOSE i \in 1..Len(tool_id) :
                                  /\ tool_id[i] = "."
                                  /\ \A j \in 1..(i - 1) : tool_id[j] # ".") + 1,
                  Len(tool_id))>>
    ELSE <<tool_id>>

ExecutionResult(success, error) == [success |-> success, error |-> error]

\* what a call of execute leaves: the rg_services, the result returned, whether
\* an exception left the call
Executed(svcs, result, raised) == [services |-> svcs, result |-> result, raised |-> raised]

\* mutant: the supplied context replaces the one the service has
M_installed_always(context, service_context) ==
    IF context # <<>> THEN context ELSE service_context

\* "if context and service.context is None: service.context = context"
installed(context, service_context) ==
    IF context # <<>> /\ service_context = <<>> THEN context ELSE service_context

\* the app id a tool of the service works under:
\* self.context.app_id if self.context else "default"
app_id_of(service_context) ==
    IF service_context # <<>> THEN service_context[1] ELSE "default"

\* BaseService.safe_execute: the service is initialized, execute is awaited
\* and its exception, if any, is wrapped in a failed result
safe_execute(service, tool_id, outcome) ==
    [service |-> [service EXCEPT !._initialized = TRUE,
                                 !.ran = IF tool_id \in ServiceTools
                                         THEN Append(@, app_id_of(service.context))
                                         ELSE @],
     result  |-> IF tool_id \in ServiceTools /\ outcome = "returns"
                 THEN ExecutionResult(TRUE, <<>>)
                 ELSE ExecutionResult(FALSE, <<"exception">>)]

\* execute from "Update context if provided" on
Dispatched(svcs, service_id, r) ==
    Executed([svcs EXCEPT ![service_id] = r.service], r.result, FALSE)

\* ServiceRegistry.execute(tool_id, params, context)
execute(svcs, tool_id, context, outcome) ==
    IF Len(split_once(tool_id)) < 2
    THEN Executed(svcs, ExecutionResult(FALSE, <<"Invalid tool ID format">>), FALSE)
    ELSE IF split_once(tool_id)[1] \notin {<<id>> : id \in DOMAIN svcs}
    THEN Executed(svcs, ExecutionResult(FALSE, <<"Service not found">>), FALSE)
    ELSE Dispatched(svcs, split_once(tool_id)[1][1],
                    safe_execute([svcs[split_once(tool_id)[1][1]] EXCEPT
                                     !.context = installed(context, @)],
                                 tool_id, outcome))

RegistryInit ==
    /\ CoreIdle /\ OnlyRegistry
    /\ \E registered \in Registrations :
          rg_services = [id \in registered |->
                         [context |-> <<>>, _initialized |-> FALSE, ran |-> <<>>]]
    /\ rg_last = <<>>
    /\ rg_ncalls = 0

\* the call is remembered with the rg_services it began with
ExecuteCall(tool_id, context, r) ==
    /\ rg_ncalls' = rg_ncalls + 1
    /\ rg_services' = r.services
    /\ rg_last' = <<[tool_id |-> tool_id, context |-> context, pre |-> rg_services,
                     result |-> r.result, raised |-> r.raised]>>

\* main.py execute_service_tool: await service_registry.execute(...)
ServiceRegistry_execute ==
    /\ rg_ncalls < MaxExecutes
    /\ \E tool_id \in ToolIds, context \in ServiceContexts, outcome \in {"returns", "raises"} :
          ExecuteCall(tool_id, context, execute(rg_services, tool_id, context, outcome))
    /\ UNCHANGED not_registryVars

RegistryNext == ServiceRegistry_execute

SpecRegistry == RegistryInit /\ [][RegistryNext]_vars

\* the service a tool id names, if it has a dot and the service is registered
NamedService(svcs, tool_id) ==
    {id \in DOMAIN svcs :
        \E i \in 1..Len(tool_id) :
           /\ tool_id[i] = "."
           /\ SubSeq(tool_id, 1, i - 1) = <<id>>}

\* C40: execute sets the context of the service the tool id names only when
\* the service has none and one is supplied; a service that has a context
\* keeps it when execute is called with another, and the tool runs under the
\* context the service kept; a tool id without a dot, or naming a service that
\* is not registered, gives a failed result, no exception, and leaves every
\* service as it was; no other service is ever changed
C40_ContextInstalledOnce ==
    rg_last # <<>> =>
       /\ ~rg_last[1].raised
       /\ DOMAIN rg_services = DOMAIN rg_last[1].pre
       /\ NamedService(rg_last[1].pre, rg_last[1].tool_id) = {} =>
             /\ ~rg_last[1].result.success
             /\ rg_services = rg_last[1].pre
       /\ \A id \in DOMAIN rg_services :
             IF id \in NamedService(rg_last[1].pre, rg_last[1].tool_id)
             THEN /\ rg_last[1].pre[id].context # <<>> =>
                        rg_services[id].context = rg_last[1].pre[id].context
                  /\ rg_last[1].pre[id].context = <<>> =>
                        rg_services[id].context = rg_last[1].context
                  /\ rg_last[1].tool_id \in ServiceTools =>
                        /\ Len(rg_services[id].ran) = Len(rg_last[1].pre[id].ran) + 1
                        /\ rg_services[id].ran[Len(rg_services[id].ran)] =
                              app_id_of(rg_services[id].context)
             ELSE rg_services[id] = rg_last[1].pre[id]

\* storage.data.save was executed for app2 on a storage service that had the
\* context of app1, and ran under app1
C40_Witness ==
    /\ rg_last # <<>>
    /\ rg_last[1].tool_id = <<"storage", ".", "data", ".", "save">>
    /\ rg_last[1].context = <<"app2">>
    /\ rg_last[1].result.success
    /\ "storage" \in DOMAIN rg_services
    /\ rg_last[1].pre["storage"].context = <<"app1">>
    /\ rg_services["storage"].context = <<"app1">>
    /\ rg_services["storage"].ran[Len(rg_services["storage"].ran)] = "app1"

\* a tool id without a dot, and one naming the ai service, were refused after
\* a service had run a tool
C40_WitnessRefused ==
    /\ rg_last # <<>>
    /\ rg_last[1].tool_id \in {<<"storage">>, <<"ai", ".", "chat">>}
    /\ ~rg_last[1].result.success
    /\ \E id \in DOMAIN rg_services : rg_services[id].ran # <<>>
====
